---- MODULE Spec2Model ----
(***************************************************************************)
(* Model of the analysis engine of tools/context-research-agent            *)
(* (src/intelligence.rs): provider detection, relevance filter, batching,  *)
(* prompt construction, the two CLI executors, rate-limit pauses and the   *)
(* aggregation of one Insight per candidate finding.                       *)
(*                                                                         *)
(* Rust Strings that the code inspects (process output, analysis text) are *)
(* sequences of one-character strings.  Dependency names, versions and     *)
(* issue titles are only copied by the code and are small integers here.   *)
(***************************************************************************)
EXTENDS Integers, Sequences, FiniteSets, TLC

VARIABLES
    pc,             \* position inside analyze_findings
    results,        \* argument of analyze_findings: Vec<SearchResult>
    probe_idx,      \* index of the next gemini_commands entry to probe
    probes,         \* commands probed so far by detect_available_provider
    probe_out,      \* outcome of the latest probe
    provider,       \* let provider = detect_available_provider()
    GEMINI_COMMAND, \* static OnceLock<String>
    relevant,       \* findings kept by the filter
    batches,        \* relevant.chunks(BATCH_SIZE)
    batch_idx,      \* loop index (1-based)
    batch_prompt,   \* prompt of the current batch
    proc_out,       \* Output of the latest executor process
    result,         \* Result<String> of the latest executor call
    insights,       \* let mut insights = Vec::new()
    log,            \* executor calls and sleeps, in the order they happen
    history,        \* per processed batch: did the call succeed, with which text
    notices,        \* notices printed on the early-return paths
    ret,            \* value returned by analyze_findings
    env,            \* per presence check: the outcomes the machine can give it
    run,            \* number of the current call of analyze_findings in the process
    prev,           \* what the detection of the previous call saw and selected
    report_pc,      \* position inside report::execute
    report_cmd,     \* cmd: ReportCmd
    pr_number,      \* the PR number, given or resolved
    report_type,    \* "full", "gemini" or "copilot"
    model,          \* the copilot model
    owner,          \* owner of the repository, from gh repo view
    repo,           \* name of the repository, from gh repo view
    diff,           \* github.get_pr_diff(..)
    title,          \* title of the PR
    body,           \* body of the PR
    final_report,   \* let mut final_report = String::new(), as its segments
    port_calls,     \* calls made on SystemPort and GitHubPort, in order
    report_ret,     \* value returned by report::execute
    ci_pc,          \* position inside ci_detect::execute
    ci_args,        \* args: CiDetectArgs
    ci_env,         \* GITHUB_OUTPUT of the environment, and whether its file can be written
    repo_name,      \* let repo_name = args.repository.ok_or_else(..)?
    is_public,      \* first component of get_repo_visibility's answer
    visibility,     \* second component of get_repo_visibility's answer
    is_main_repo,   \* does the name contain one of the protocol's names
    schedule_mode,  \* "aggressive", "moderate" or "conservative"
    enable_schedules, \* whether scheduled workflows are turned on
    github_output,  \* lines appended to the file GITHUB_OUTPUT names
    ci_calls,       \* calls made on SystemPort by ci_detect, in order
    ci_ret,         \* value returned by ci_detect::execute
    tel_pc,         \* position inside telemetry::execute
    tel_args,       \* args: TelemetryArgs
    tel_env,        \* the repository the command runs in
    tel_run,        \* number of the current run of the telemetry command
    tel_prev,       \* anonymity and project id of the previous run
    anonymous,      \* let anonymous = args.anonymous.unwrap_or(!args.internal)
    now,            \* chrono::Utc::now(): timestamp, ISO week and ISO year
    tel_repo_name,  \* repo_name of telemetry::execute
    project_id,     \* let project_id = if anonymous {..} else {..}
    metrics,        \* let mut metrics = Metrics {..}
    telemetry_json, \* serde_json::to_string_pretty(&metrics)
    submission_title, \* title of the issue or discussion
    repo_id,        \* id of the official repository, from the query of submit_public
    category_id,    \* id of the discussion category submit_public selects
    mut_arg,        \* let mut_arg = format!("query={}", mutation)
    tel_calls,      \* calls made on SystemPort by telemetry, in order
    tel_ret         \* value returned by telemetry::execute

\* the variables of analyze_findings and of the process it runs in
analysisVars ==
    <<pc, results, probe_idx, probes, probe_out, provider, GEMINI_COMMAND,
      relevant, batches, batch_idx, batch_prompt, proc_out, result,
      insights, log, history, notices, ret, env, run, prev>>

\* the variables of report::execute
reportVars ==
    <<report_pc, report_cmd, pr_number, report_type, model, owner, repo, diff,
      title, body, final_report, port_calls, report_ret>>

\* the variables of ci_detect::execute
ciVars ==
    <<ci_pc, ci_args, ci_env, repo_name, is_public, visibility, is_main_repo,
      schedule_mode, enable_schedules, github_output, ci_calls, ci_ret>>

\* the variables of telemetry::execute
telemetryVars ==
    <<tel_pc, tel_args, tel_env, tel_run, tel_prev, anonymous, now,
      tel_repo_name, project_id, metrics, telemetry_json, submission_title,
      repo_id, category_id, mut_arg, tel_calls, tel_ret>>

vars == <<analysisVars, reportVars, ciVars, telemetryVars>>

----------------------------------------------------------------------------
(* Bounds of the model *)

\* largest number of findings with at least one issue in an input
MaxCandidates == 12
\* largest number of calls of analyze_findings in one process
MaxRuns == 2

----------------------------------------------------------------------------
(* Program constants *)

RATE_LIMIT_DELAY_MS == 3000
BATCH_SIZE == 5

\* variant: the Windows wrapper is tried before the plain name
gemini_commands_cmd_first == <<"gemini.cmd", "gemini", "gemini.exe", "gemini.bat">>

gemini_commands == <<"gemini", "gemini.cmd", "gemini.exe", "gemini.bat">>

\* "AI analysis unavailable for this batch."
PLACEHOLDER ==
    <<"A","I"," ","a","n","a","l","y","s","i","s"," ",
      "u","n","a","v","a","i","l","a","b","l","e"," ",
      "f","o","r"," ","t","h","i","s"," ","b","a","t","c","h",".">>

PREAMBLE == "You are a Senior Software Engineer analyzing GitHub issues for multiple libraries. ..."

----------------------------------------------------------------------------
(* String helpers of the Rust standard library, on character sequences *)

Min(a, b) == IF a < b THEN a ELSE b

IsWhitespace(c) == c \in {" ", "\n", "\t", "\r"}

RECURSIVE TrimStart(_)
TrimStart(s) ==
    IF s # <<>> /\ IsWhitespace(Head(s)) THEN TrimStart(Tail(s)) ELSE s

RECURSIVE TrimEnd(_)
TrimEnd(s) ==
    IF s # <<>> /\ IsWhitespace(s[Len(s)])
    THEN TrimEnd(SubSeq(s, 1, Len(s) - 1))
    ELSE s

Trim(s) == TrimEnd(TrimStart(s))

StartsWith(s, p) == Len(s) >= Len(p) /\ SubSeq(s, 1, Len(p)) = p

EndsWith(s, p) == Len(s) >= Len(p) /\ SubSeq(s, Len(s) - Len(p) + 1, Len(s)) = p

RECURSIVE TrimStartMatches(_, _)
TrimStartMatches(s, p) ==
    IF p # <<>> /\ StartsWith(s, p)
    THEN TrimStartMatches(SubSeq(s, Len(p) + 1, Len(s)), p)
    ELSE s

RECURSIVE TrimEndMatches(_, _)
TrimEndMatches(s, p) ==
    IF p # <<>> /\ EndsWith(s, p)
    THEN TrimEndMatches(SubSeq(s, 1, Len(s) - Len(p)), p)
    ELSE s

Contains(s, sub) ==
    \E i \in 1..(Len(s) - Len(sub) + 1) : SubSeq(s, i, i + Len(sub) - 1) = sub

\* the backquote character (the lexer of TLA+ has no string for it)
BQ == "BACKQUOTE"

FENCE == <<BQ, BQ, BQ>>
FENCE_JSON == <<BQ, BQ, BQ, "j", "s", "o", "n">>

----------------------------------------------------------------------------
(* Inputs *)

\* issues of the finding at input position i: one or two issues
IssuesFor(i) ==
    IF i % 2 = 1
    THEN <<[state |-> "open", title |-> 10 * i]>>
    ELSE <<[state |-> "open", title |-> 10 * i],
           [state |-> "closed", title |-> 10 * i + 1]>>

MkFinding(i, hasIssues) ==
    [name    |-> i,
     version |-> 1 + (i % 3),
     issues  |-> IF hasIssues THEN IssuesFor(i) ELSE <<>>]

\* Findings without issues are inserted after that many candidates (after the
\* last one when the input has fewer): at the front, at the end of the first
\* batch, inside the second batch.
EmptyAfter == {0, 5, 7}

\* which positions of an input with c candidates hold a finding with issues,
\* from the gap after k candidates on
RECURSIVE Mask(_, _, _)
Mask(k, c, E) ==
    [i \in 1..Cardinality({s \in E : Min(s, c) = k}) |-> FALSE]
        \o (IF k < c THEN <<TRUE>> \o Mask(k + 1, c, E) ELSE <<>>)

InputOf(m) == [i \in 1..Len(m) |-> MkFinding(i, m[i])]

Inputs ==
    {InputOf(Mask(0, c, E)) : c \in 0..MaxCandidates, E \in SUBSET EmptyAfter}

\* what a presence check (--version / models list) can do
ProbeOutputs == {"spawn_error", "exit_nonzero", "exit_zero"}

\* the commands detect_available_provider probes
ProbeCommands == {"gemini", "gemini.cmd", "gemini.exe", "gemini.bat", "gh"}

\* a machine about which nothing is known: every check can end in every way
AnyEnv == [c \in ProbeCommands |-> ProbeOutputs]

\* a machine on which exactly the commands of H are installed and working; a
\* missing command fails to spawn or exits non-zero
EnvWith(H) ==
    [c \in ProbeCommands |->
        IF c \in H THEN {"exit_zero"} ELSE {"spawn_error", "exit_nonzero"}]

\* the machines of the runs of one process: gemini, gemini.cmd and gh come and go
RunEnvs == {EnvWith(H) : H \in SUBSET {"gemini", "gemini.cmd", "gh"}}

\* the inputs of the runs of one process: nothing to analyze, or two batches
RunCandidates == {0, 6}
RunInputs == {InputOf(Mask(0, c, {})) : c \in RunCandidates}


\* Output of a gemini executor process.  stdout is kept as what
\* serde_json::from_str::<GeminiResponse> can make of it: no JSON at all, a
\* JSON value without the "response" string, or an object carrying one.
OK_TEXT == <<"o", "k">>

GeminiResponses ==
    { OK_TEXT,
      FENCE_JSON \o <<"\n">> \o OK_TEXT \o <<"\n">> \o FENCE,
      <<" ", "\n">>,
      FENCE \o FENCE,
      PLACEHOLDER }

GeminiStdouts ==
    { [kind |-> "not_json", response |-> <<>>],
      [kind |-> "no_field", response |-> <<>>] }
    \cup { [kind |-> "object", response |-> r] : r \in GeminiResponses }

GeminiStderrs ==
    { <<"4", "2", "9">>,
      <<"r", "a", "t", "e">>,
      <<"a", "u", "t", "h">>,
      <<"l", "o", "g", "i", "n">>,
      <<"a", "u", "t", "h", " ", "4", "2", "9">>,
      <<"o", "o", "p", "s">> }

GeminiOutputs ==
    { [spawned |-> FALSE, success |-> FALSE,
       stdout |-> [kind |-> "not_json", response |-> <<>>], stderr |-> <<>>] }
    \cup { [spawned |-> TRUE, success |-> TRUE, stdout |-> o, stderr |-> <<>>] :
              o \in GeminiStdouts }
    \cup { [spawned |-> TRUE, success |-> FALSE,
            stdout |-> [kind |-> "not_json", response |-> <<>>], stderr |-> e] :
              e \in GeminiStderrs }

GhStdouts ==
    { OK_TEXT, <<" ">> \o OK_TEXT \o <<"\n">>, <<" ", "\n">>, <<>>, PLACEHOLDER }

GhStderrs ==
    { <<"4", "0", "3">>,
      <<"n", "o", "_", "a", "c", "c", "e", "s", "s">>,
      <<"o", "o", "p", "s">> }

GhOutputs ==
    { [spawned |-> FALSE, success |-> FALSE, stdout |-> <<>>, stderr |-> <<>>] }
    \cup { [spawned |-> TRUE, success |-> TRUE, stdout |-> o, stderr |-> <<>>] :
              o \in GhStdouts }
    \cup { [spawned |-> TRUE, success |-> FALSE, stdout |-> <<>>, stderr |-> e] :
              e \in GhStderrs }

----------------------------------------------------------------------------
(* Pure parts of the program *)

Ok(text) == [ok |-> TRUE, text |-> text, err |-> "none"]
Err(class) == [ok |-> FALSE, text |-> <<>>, err |-> class]

\* variant: the filter keeps everything
IsRelevantAlways(r) == TRUE

\* variant: the filter asks for more than one issue
IsRelevantMoreThanOne(r) == Len(r.issues) > 1

\* .filter(|r| !r.issues.is_empty())
IsRelevant(r) == Len(r.issues) # 0

\* results.into_iter().filter(..).collect()
Filter(rs) == SelectSeq(rs, IsRelevant)

\* variant: the early return on an empty candidate list is missing
NothingToAnalyzeNever(total) == FALSE

\* if total == 0
NothingToAnalyze(total) == total = 0

\* variant: slice::chunks_exact(n), which leaves the remainder out
RECURSIVE ChunksExact(_, _)
ChunksExact(s, n) ==
    IF Len(s) < n
    THEN <<>>
    ELSE <<SubSeq(s, 1, n)>> \o ChunksExact(SubSeq(s, n + 1, Len(s)), n)

\* slice::chunks(n)
RECURSIVE Chunks(_, _)
Chunks(s, n) ==
    IF Len(s) = 0
    THEN <<>>
    ELSE <<SubSeq(s, 1, Min(n, Len(s)))>>
             \o Chunks(SubSeq(s, Min(n, Len(s)) + 1, Len(s)), n)

\* variant: closed issues are left out of the prompt
RECURSIVE IssueSegmentsOpenOnly(_)
IssueSegmentsOpenOnly(issues) ==
    IF issues = <<>>
    THEN <<>>
    ELSE (IF Head(issues).state = "open"
          THEN <<<<"issue", Head(issues).state, Head(issues).title>>>>
          ELSE <<>>)
             \o IssueSegmentsOpenOnly(Tail(issues))

\* the inner loop of build_batch_prompt: "[{state}] {title}. " per issue
RECURSIVE IssueSegments(_)
IssueSegments(issues) ==
    IF issues = <<>>
    THEN <<>>
    ELSE <<<<"issue", Head(issues).state, Head(issues).title>>>>
             \o IssueSegments(Tail(issues))

\* the outer loop of build_batch_prompt, from the i-th finding of the batch on:
\* "--- Library {i}: {name} (version {version}) Issues Found: " and its issues
RECURSIVE LibrarySegments(_, _)
LibrarySegments(batch, i) ==
    IF i > Len(batch)
    THEN <<>>
    ELSE <<<<"library", i, batch[i].name, batch[i].version>>>>
             \o IssueSegments(batch[i].issues)
             \o LibrarySegments(batch, i + 1)

\* variant: the libraries are numbered through the whole run, not per batch
build_batch_prompt_run_numbering(batch) ==
    [j \in 1..Len(<<<<PREAMBLE>>>> \o LibrarySegments(batch, 1)) |->
        LET seg == (<<<<PREAMBLE>>>> \o LibrarySegments(batch, 1))[j]
        IN  IF seg[1] = "library"
            THEN <<"library", seg[2] + (batch_idx - 1) * BATCH_SIZE, seg[3], seg[4]>>
            ELSE seg]

build_batch_prompt(batch) == <<<<PREAMBLE>>>> \o LibrarySegments(batch, 1)

\* GEMINI_COMMAND.get().map(|s| s.as_str()).unwrap_or("gemini")
GeminiCmd(cell) == IF cell = "unset" THEN "gemini" ELSE cell

\* OnceLock::set: the first value stays
OnceLockSet(cell, v) == IF cell = "unset" THEN v ELSE cell

\* variant: the second trim() of the chain is missing
CleanedNoFinalTrim(response) ==
    TrimEndMatches(
        TrimStartMatches(TrimStartMatches(Trim(response), FENCE_JSON), FENCE),
        FENCE)

\* the clean-up chain of call_gemini_cli
Cleaned(response) ==
    Trim(TrimEndMatches(
           TrimStartMatches(TrimStartMatches(Trim(response), FENCE_JSON), FENCE),
           FENCE))

\* variant: the is_empty() check of the cleaned response is missing
call_gemini_cli_no_empty_check(out) ==
    IF ~out.spawned THEN Err("spawn")
    ELSE IF out.success
    THEN IF out.stdout.kind # "object" THEN Err("parse")
         ELSE Ok(Cleaned(out.stdout.response))
    ELSE IF Contains(out.stderr, <<"4", "2", "9">>)
            \/ Contains(out.stderr, <<"r", "a", "t", "e">>)
         THEN Err("rate_limit")
    ELSE IF Contains(out.stderr, <<"a", "u", "t", "h">>)
            \/ Contains(out.stderr, <<"l", "o", "g", "i", "n">>)
         THEN Err("not_authenticated")
    ELSE Err("gemini_error")

\* variant: the authentication signature is looked for first
call_gemini_cli_auth_first(out) ==
    IF ~out.spawned THEN Err("spawn")
    ELSE IF out.success
    THEN IF out.stdout.kind # "object" THEN Err("parse")
         ELSE IF Cleaned(out.stdout.response) = <<>> THEN Err("empty")
         ELSE Ok(Cleaned(out.stdout.response))
    ELSE IF Contains(out.stderr, <<"a", "u", "t", "h">>)
            \/ Contains(out.stderr, <<"l", "o", "g", "i", "n">>)
         THEN Err("not_authenticated")
    ELSE IF Contains(out.stderr, <<"4", "2", "9">>)
            \/ Contains(out.stderr, <<"r", "a", "t", "e">>)
         THEN Err("rate_limit")
    ELSE Err("gemini_error")

call_gemini_cli(out) ==
    IF ~out.spawned THEN Err("spawn")
    ELSE IF out.success
    THEN IF out.stdout.kind # "object" THEN Err("parse")
         ELSE IF Cleaned(out.stdout.response) = <<>> THEN Err("empty")
         ELSE Ok(Cleaned(out.stdout.response))
    ELSE IF Contains(out.stderr, <<"4", "2", "9">>)
            \/ Contains(out.stderr, <<"r", "a", "t", "e">>)
         THEN Err("rate_limit")
    ELSE IF Contains(out.stderr, <<"a", "u", "t", "h">>)
            \/ Contains(out.stderr, <<"l", "o", "g", "i", "n">>)
         THEN Err("not_authenticated")
    ELSE Err("gemini_error")

\* variant: is_empty() without trim()
call_gh_models_no_trim(out) ==
    IF ~out.spawned THEN Err("spawn")
    ELSE IF out.success
    THEN IF out.stdout = <<>> THEN Err("empty") ELSE Ok(out.stdout)
    ELSE IF Contains(out.stderr, <<"4", "0", "3">>)
            \/ Contains(out.stderr, <<"n", "o", "_", "a", "c", "c", "e", "s", "s">>)
         THEN Err("no_access")
    ELSE Err("gh_error")

call_gh_models(out) ==
    IF ~out.spawned THEN Err("spawn")
    ELSE IF out.success
    THEN IF Trim(out.stdout) = <<>> THEN Err("empty") ELSE Ok(out.stdout)
    ELSE IF Contains(out.stderr, <<"4", "0", "3">>)
            \/ Contains(out.stderr, <<"n", "o", "_", "a", "c", "c", "e", "s", "s">>)
         THEN Err("no_access")
    ELSE Err("gh_error")

\* variant: unwrap_or_default, a failed call yields the empty text
AnalysisTextOrEmpty(res) == res.text

\* result.unwrap_or_else(|_| "AI analysis unavailable for this batch.")
AnalysisText(res) == IF res.ok THEN res.text ELSE PLACEHOLDER

\* variant: a batch whose call failed contributes no Insight
BatchInsightsDropFailed(batch, text) ==
    IF text = PLACEHOLDER
    THEN <<>>
    ELSE [i \in 1..Len(batch) |->
            [dependency_name |-> batch[i].name,
             version         |-> batch[i].version,
             analysis        |-> text]]

\* variant: the dependencies of a batch are pushed last to first
BatchInsightsReversed(batch, text) ==
    [i \in 1..Len(batch) |->
        [dependency_name |-> batch[Len(batch) + 1 - i].name,
         version         |-> batch[Len(batch) + 1 - i].version,
         analysis        |-> text]]

\* variant: only the first dependency of a batch gets the text
BatchInsightsFirstOnly(batch, text) ==
    [i \in 1..Len(batch) |->
        [dependency_name |-> batch[i].name,
         version         |-> batch[i].version,
         analysis        |-> IF i = 1 THEN text ELSE <<>>]]

\* for dep in batch { insights.push(Insight {..}) }
BatchInsights(batch, text) ==
    [i \in 1..Len(batch) |->
        [dependency_name |-> batch[i].name,
         version         |-> batch[i].version,
         analysis        |-> text]]

\* variant: the pause is not skipped after the last batch
NeedsPauseAfterEvery(idx, total_batches) == idx <= total_batches

\* variant: the comparison is one too strict
NeedsPauseOffByOne(idx, total_batches) == idx < total_batches - 1

\* if batch_idx < total_batches - 1, with the 1-based index of the model
NeedsPause(idx, total_batches) == idx < total_batches

----------------------------------------------------------------------------
(* report::execute: values *)

\* Option<u64>
None == [some |-> FALSE, n |-> 0]
Some(n) == [some |-> TRUE, n |-> n]

\* Result<T> of a port call
PortOk(out) == [ok |-> TRUE, out |-> out]
PortErr == [ok |-> FALSE, out |-> <<>>]

\* report::execute has not been called
ReportNotStarted ==
    /\ report_pc = "not_started"
    /\ report_cmd = [kind |-> "none", pr |-> None, model |-> ""]
    /\ pr_number = 0
    /\ report_type = ""
    /\ model = ""
    /\ owner = ""
    /\ repo = ""
    /\ diff = ""
    /\ title = ""
    /\ body = ""
    /\ final_report = <<>>
    /\ port_calls = <<>>
    /\ report_ret = [returned |-> FALSE, ok |-> FALSE, err |-> "none"]

----------------------------------------------------------------------------
(* ci_detect::execute: values *)

\* Option<String>
NoneStr == [some |-> FALSE, s |-> <<>>]
SomeStr(s) == [some |-> TRUE, s |-> s]

\* ci_detect::execute has not been called
CiNotStarted ==
    /\ ci_pc = "not_started"
    /\ ci_args = [repository |-> NoneStr]
    /\ ci_env = [GITHUB_OUTPUT |-> FALSE, open |-> "ok", writes |-> 0]
    /\ repo_name = <<>>
    /\ is_public = FALSE
    /\ visibility = ""
    /\ is_main_repo = FALSE
    /\ schedule_mode = ""
    /\ enable_schedules = FALSE
    /\ github_output = <<>>
    /\ ci_calls = <<>>
    /\ ci_ret = [returned |-> FALSE, ok |-> FALSE, err |-> "none"]

----------------------------------------------------------------------------
(* telemetry::execute: values *)

\* Option<bool>
NoneBool == [some |-> FALSE, b |-> FALSE]
SomeBool(b) == [some |-> TRUE, b |-> b]

\* Order1Metrics::default(), Order2Metrics::default(), Order3Metrics::default();
\* the two f64 of Order2Metrics are kept in tenths
DefaultOrder1 ==
    [issues_open |-> 0, issues_closed_total |-> 0, prs_open |-> 0, prs_merged_total |-> 0]
DefaultOrder2 ==
    [agent_state_usage_pct |-> 0, atomic_commit_ratio |-> 0, sample_size |-> 0]
DefaultOrder3 ==
    [friction_reports |-> 0, evolution_proposals |-> 0]

\* Option<Vec<String>>
NonePatterns == [some |-> FALSE, v |-> <<>>]
SomePatterns(v) == [some |-> TRUE, v |-> v]

NoClock == [timestamp |-> <<>>, week |-> 0, year |-> 0]

NoMetrics ==
    [schema_version |-> <<>>, submission_method |-> <<>>, project_id |-> <<>>,
     anonymous |-> FALSE, timestamp |-> <<>>, week |-> 0, year |-> 0,
     protocol_version |-> <<>>, order1 |-> DefaultOrder1, order2 |-> DefaultOrder2,
     order3 |-> DefaultOrder3, patterns |-> NonePatterns]

NoTelPrev == [some |-> FALSE, anonymous |-> FALSE, project_id |-> <<>>]

\* telemetry::execute has not been called
TelemetryNotStarted ==
    /\ tel_pc = "not_started"
    /\ tel_args = [dry_run |-> FALSE, internal |-> FALSE, anonymous |-> NoneBool,
                   include_patterns |-> FALSE]
    /\ tel_env = [repository |-> "none", gh |-> "down"]
    /\ tel_run = 1
    /\ tel_prev = NoTelPrev
    /\ anonymous = FALSE
    /\ now = NoClock
    /\ tel_repo_name = <<>>
    /\ project_id = <<>>
    /\ metrics = NoMetrics
    /\ telemetry_json = <<>>
    /\ submission_title = <<>>
    /\ repo_id = <<>>
    /\ category_id = <<>>
    /\ mut_arg = <<>>
    /\ tel_calls = <<>>
    /\ tel_ret = [returned |-> FALSE, ok |-> FALSE, err |-> "none"]

----------------------------------------------------------------------------
(* State machine: one call of analyze_findings *)

NoOutput == [spawned |-> FALSE, success |-> FALSE, stdout |-> <<>>, stderr |-> <<>>]
NoResult == [ok |-> FALSE, text |-> <<>>, err |-> "not_called"]
NotReturned == [returned |-> FALSE, ok |-> FALSE, value |-> <<>>]

NoPrev == [env |-> AnyEnv, probes |-> <<>>, provider |-> "undetected"]

\* return Ok(v)
ReturnOk(v) == [returned |-> TRUE, ok |-> TRUE, value |-> v]

\* a started process: the command and the prompt passed as its argument
CallEvent(k, cmd, prompt) ==
    [ev |-> "call", batch |-> k, cmd |-> cmd, ms |-> 0, prompt |-> prompt]
PauseEvent(k, ms) == [ev |-> "pause", batch |-> k, cmd |-> "sleep", ms |-> ms]

Init ==
    /\ pc = "detect"
    /\ results \in Inputs
    /\ probe_idx = 1
    /\ probes = <<>>
    /\ probe_out = "none"
    /\ provider = "undetected"
    /\ GEMINI_COMMAND = "unset"
    /\ relevant = <<>>
    /\ batches = <<>>
    /\ batch_idx = 0
    /\ batch_prompt = <<>>
    /\ proc_out = NoOutput
    /\ result = NoResult
    /\ insights = <<>>
    /\ log = <<>>
    /\ history = <<>>
    /\ notices = <<>>
    /\ ret = NotReturned
    /\ env = AnyEnv
    /\ run = 1
    /\ prev = NoPrev
    /\ TelemetryNotStarted
    /\ CiNotStarted
    /\ ReportNotStarted

\* variant: Command::output()? - a presence check that cannot be spawned
\* ends the run with its error
ProbeGeminiSpawnErrorFatal ==
    /\ pc = "detect"
    /\ probe_idx <= Len(gemini_commands)
    /\ \E o \in env[gemini_commands[probe_idx]] :
          /\ probe_out' = o
          /\ probes' = Append(probes, gemini_commands[probe_idx])
          /\ IF o = "exit_zero"
             THEN /\ GEMINI_COMMAND' =
                        OnceLockSet(GEMINI_COMMAND, gemini_commands[probe_idx])
                  /\ provider' = "GeminiCli"
                  /\ pc' = "detected"
                  /\ UNCHANGED <<probe_idx, ret>>
             ELSE IF o = "spawn_error"
             THEN /\ ret' = [returned |-> TRUE, ok |-> FALSE, value |-> <<>>]
                  /\ pc' = "done"
                  /\ UNCHANGED <<probe_idx, GEMINI_COMMAND, provider>>
             ELSE /\ probe_idx' = probe_idx + 1
                  /\ UNCHANGED <<GEMINI_COMMAND, provider, pc, ret>>
    /\ UNCHANGED <<env, run, prev>>
    /\ UNCHANGED reportVars
    /\ UNCHANGED telemetryVars
    /\ UNCHANGED ciVars
    /\ UNCHANGED <<results, relevant, batches, batch_idx, batch_prompt, proc_out,
                   result, insights, log, history, notices>>

\* variant: a command remembered in GEMINI_COMMAND is taken as detected
\* without a presence check
ProbeGeminiCached ==
    /\ pc = "detect"
    /\ probe_idx <= Len(gemini_commands)
    /\ IF GEMINI_COMMAND # "unset"
       THEN /\ provider' = "GeminiCli"
            /\ pc' = "detected"
            /\ probe_out' = "exit_zero"
            /\ UNCHANGED <<probes, probe_idx, GEMINI_COMMAND>>
       ELSE \E o \in env[gemini_commands[probe_idx]] :
              /\ probe_out' = o
              /\ probes' = Append(probes, gemini_commands[probe_idx])
              /\ IF o = "exit_zero"
                 THEN /\ GEMINI_COMMAND' =
                            OnceLockSet(GEMINI_COMMAND, gemini_commands[probe_idx])
                      /\ provider' = "GeminiCli"
                      /\ pc' = "detected"
                      /\ UNCHANGED probe_idx
                 ELSE /\ probe_idx' = probe_idx + 1
                      /\ UNCHANGED <<GEMINI_COMMAND, provider, pc>>
    /\ UNCHANGED <<env, run, prev>>
    /\ UNCHANGED reportVars
    /\ UNCHANGED telemetryVars
    /\ UNCHANGED ciVars
    /\ UNCHANGED <<results, relevant, batches, batch_idx, batch_prompt, proc_out,
                   result, insights, log, history, notices, ret>>

\* detect_available_provider: one iteration of `for cmd in gemini_commands`
ProbeGemini ==
    /\ pc = "detect"
    /\ probe_idx <= Len(gemini_commands)
    /\ \E o \in env[gemini_commands[probe_idx]] :
          /\ probe_out' = o
          /\ probes' = Append(probes, gemini_commands[probe_idx])
          /\ IF o = "exit_zero"
             THEN /\ GEMINI_COMMAND' =
                        OnceLockSet(GEMINI_COMMAND, gemini_commands[probe_idx])
                  /\ provider' = "GeminiCli"
                  /\ pc' = "detected"
                  /\ UNCHANGED probe_idx
             ELSE /\ probe_idx' = probe_idx + 1
                  /\ UNCHANGED <<GEMINI_COMMAND, provider, pc>>
    /\ UNCHANGED <<env, run, prev>>
    /\ UNCHANGED reportVars
    /\ UNCHANGED telemetryVars
    /\ UNCHANGED ciVars
    /\ UNCHANGED <<results, relevant, batches, batch_idx, batch_prompt, proc_out,
                   result, insights, log, history, notices, ret>>

\* detect_available_provider: the gh fallback and the final AIProvider::None
ProbeGh ==
    /\ pc = "detect"
    /\ probe_idx > Len(gemini_commands)
    /\ \E o \in env["gh"] :
          /\ probe_out' = o
          /\ probes' = Append(probes, "gh")
          /\ provider' = IF o = "exit_zero" THEN "GitHubModels" ELSE "None"
    /\ pc' = "detected"
    /\ UNCHANGED <<env, run, prev>>
    /\ UNCHANGED reportVars
    /\ UNCHANGED telemetryVars
    /\ UNCHANGED ciVars
    /\ UNCHANGED <<results, probe_idx, GEMINI_COMMAND, relevant, batches, batch_idx,
                   batch_prompt, proc_out, result, insights, log, history,
                   notices, ret>>

\* variant: the missing provider is reported as an error
ReturnNoProviderAsError ==
    /\ pc = "detected"
    /\ provider = "None"
    /\ notices' = Append(notices, "no_provider")
    /\ ret' = [returned |-> TRUE, ok |-> FALSE, value |-> <<>>]
    /\ pc' = "done"
    /\ UNCHANGED <<env, run, prev>>
    /\ UNCHANGED reportVars
    /\ UNCHANGED telemetryVars
    /\ UNCHANGED ciVars
    /\ UNCHANGED <<results, probe_idx, probes, probe_out, provider, GEMINI_COMMAND,
                   relevant, batches, batch_idx, batch_prompt, proc_out, result,
                   insights, log, history>>

\* if provider == AIProvider::None { println!(..); return Ok(Vec::new()); }
ReturnNoProvider ==
    /\ pc = "detected"
    /\ provider = "None"
    /\ notices' = Append(notices, "no_provider")
    /\ ret' = ReturnOk(<<>>)
    /\ pc' = "done"
    /\ UNCHANGED <<env, run, prev>>
    /\ UNCHANGED reportVars
    /\ UNCHANGED telemetryVars
    /\ UNCHANGED ciVars
    /\ UNCHANGED <<results, probe_idx, probes, probe_out, provider, GEMINI_COMMAND,
                   relevant, batches, batch_idx, batch_prompt, proc_out, result,
                   insights, log, history>>

\* the filter, and if total == 0 { println!(..); return Ok(Vec::new()); }
ReturnNoIssues ==
    /\ pc = "detected"
    /\ provider # "None"
    /\ NothingToAnalyze(Len(Filter(results)))
    /\ relevant' = Filter(results)
    /\ notices' = Append(notices, "no_issues")
    /\ ret' = ReturnOk(<<>>)
    /\ pc' = "done"
    /\ UNCHANGED <<env, run, prev>>
    /\ UNCHANGED reportVars
    /\ UNCHANGED telemetryVars
    /\ UNCHANGED ciVars
    /\ UNCHANGED <<results, probe_idx, probes, probe_out, provider, GEMINI_COMMAND,
                   batches, batch_idx, batch_prompt, proc_out, result, insights,
                   log, history>>

\* the filter and relevant.chunks(BATCH_SIZE), up to the head of the loop
PlanBatches ==
    /\ pc = "detected"
    /\ provider # "None"
    /\ ~NothingToAnalyze(Len(Filter(results)))
    /\ relevant' = Filter(results)
    /\ batches' = Chunks(Filter(results), BATCH_SIZE)
    /\ batch_idx' = 1
    /\ pc' = "loop"
    /\ UNCHANGED <<env, run, prev>>
    /\ UNCHANGED reportVars
    /\ UNCHANGED telemetryVars
    /\ UNCHANGED ciVars
    /\ UNCHANGED <<results, probe_idx, probes, probe_out, provider, GEMINI_COMMAND,
                   batch_prompt, proc_out, result, insights, log, history,
                   notices, ret>>

\* variant: after a failed batch the next call goes to the other CLI
CallStartFallback ==
    /\ pc = "loop"
    /\ batch_idx <= Len(batches)
    /\ batch_prompt' = build_batch_prompt(batches[batch_idx])
    /\ log' = Append(log, CallEvent(batch_idx,
                 IF history # <<>> /\ ~history[Len(history)].ok
                 THEN (IF provider = "GeminiCli" THEN "gh" ELSE "gemini")
                 ELSE IF provider = "GeminiCli"
                      THEN GeminiCmd(GEMINI_COMMAND) ELSE "gh",
                 build_batch_prompt(batches[batch_idx])))
    /\ pc' = "in_flight"
    /\ UNCHANGED <<env, run, prev>>
    /\ UNCHANGED reportVars
    /\ UNCHANGED telemetryVars
    /\ UNCHANGED ciVars
    /\ UNCHANGED <<results, probe_idx, probes, probe_out, provider, GEMINI_COMMAND,
                   relevant, batches, batch_idx, proc_out, result, insights,
                   history, notices, ret>>

\* variant: the batches are taken from the back
CallStartLastFirst ==
    /\ pc = "loop"
    /\ batch_idx <= Len(batches)
    /\ batch_prompt' = build_batch_prompt(batches[Len(batches) + 1 - batch_idx])
    /\ log' = Append(log, CallEvent(batch_idx,
                 IF provider = "GeminiCli" THEN GeminiCmd(GEMINI_COMMAND) ELSE "gh",
                 build_batch_prompt(batches[Len(batches) + 1 - batch_idx])))
    /\ pc' = "in_flight"
    /\ UNCHANGED <<env, run, prev>>
    /\ UNCHANGED reportVars
    /\ UNCHANGED telemetryVars
    /\ UNCHANGED ciVars
    /\ UNCHANGED <<results, probe_idx, probes, probe_out, provider, GEMINI_COMMAND,
                   relevant, batches, batch_idx, proc_out, result, insights,
                   history, notices, ret>>

\* build_batch_prompt and Command::new(..).args(..): the process is started
CallStart ==
    /\ pc = "loop"
    /\ batch_idx <= Len(batches)
    /\ batch_prompt' = build_batch_prompt(batches[batch_idx])
    /\ log' = Append(log, CallEvent(batch_idx,
                 IF provider = "GeminiCli" THEN GeminiCmd(GEMINI_COMMAND) ELSE "gh",
                 build_batch_prompt(batches[batch_idx])))
    /\ pc' = "in_flight"
    /\ UNCHANGED <<env, run, prev>>
    /\ UNCHANGED reportVars
    /\ UNCHANGED telemetryVars
    /\ UNCHANGED ciVars
    /\ UNCHANGED <<results, probe_idx, probes, probe_out, provider, GEMINI_COMMAND,
                   relevant, batches, batch_idx, proc_out, result, insights,
                   history, notices, ret>>

\* .output() returns and call_gemini_cli / call_gh_models yields its Result
CallReturn ==
    /\ pc = "in_flight"
    /\ \E out \in (IF provider = "GeminiCli" THEN GeminiOutputs ELSE GhOutputs) :
          /\ proc_out' = out
          /\ result' = IF provider = "GeminiCli"
                       THEN call_gemini_cli(out)
                       ELSE call_gh_models(out)
    /\ pc' = "aggregate"
    /\ UNCHANGED <<env, run, prev>>
    /\ UNCHANGED reportVars
    /\ UNCHANGED telemetryVars
    /\ UNCHANGED ciVars
    /\ UNCHANGED <<results, probe_idx, probes, probe_out, provider, GEMINI_COMMAND,
                   relevant, batches, batch_idx, batch_prompt, insights, log,
                   history, notices, ret>>

\* variant: a failed batch starts the insight list afresh
AggregateResetOnFailure ==
    /\ pc = "aggregate"
    /\ insights' = (IF result.ok THEN insights ELSE <<>>)
                     \o BatchInsights(batches[batch_idx], AnalysisText(result))
    /\ history' = Append(history, [ok |-> result.ok, text |-> result.text])
    /\ proc_out' = NoOutput
    /\ pc' = "rate_limit"
    /\ UNCHANGED <<env, run, prev>>
    /\ UNCHANGED reportVars
    /\ UNCHANGED telemetryVars
    /\ UNCHANGED ciVars
    /\ UNCHANGED <<results, probe_idx, probes, probe_out, provider, GEMINI_COMMAND,
                   relevant, batches, batch_idx, batch_prompt, result,
                   log, notices, ret>>

\* variant: `?` on the executor's result - a process that cannot be spawned
\* ends the run with the error
AggregateSpawnErrorFatal ==
    /\ pc = "aggregate"
    /\ IF result.err = "spawn"
       THEN /\ ret' = [returned |-> TRUE, ok |-> FALSE, value |-> <<>>]
            /\ pc' = "done"
            /\ UNCHANGED <<insights, history>>
       ELSE /\ insights' = insights
                     \o BatchInsights(batches[batch_idx], AnalysisText(result))
            /\ history' = Append(history, [ok |-> result.ok, text |-> result.text])
            /\ pc' = "rate_limit"
            /\ UNCHANGED ret
    /\ proc_out' = NoOutput
    /\ UNCHANGED <<env, run, prev>>
    /\ UNCHANGED reportVars
    /\ UNCHANGED telemetryVars
    /\ UNCHANGED ciVars
    /\ UNCHANGED <<results, probe_idx, probes, probe_out, provider, GEMINI_COMMAND,
                   relevant, batches, batch_idx, batch_prompt, result,
                   log, notices>>

\* unwrap_or_else and the push of one Insight per dependency of the batch;
\* the Output of the finished process is gone by now
Aggregate ==
    /\ pc = "aggregate"
    /\ insights' = insights
                     \o BatchInsights(batches[batch_idx], AnalysisText(result))
    /\ history' = Append(history, [ok |-> result.ok, text |-> result.text])
    /\ proc_out' = NoOutput
    /\ pc' = "rate_limit"
    /\ UNCHANGED <<env, run, prev>>
    /\ UNCHANGED reportVars
    /\ UNCHANGED telemetryVars
    /\ UNCHANGED ciVars
    /\ UNCHANGED <<results, probe_idx, probes, probe_out, provider, GEMINI_COMMAND,
                   relevant, batches, batch_idx, batch_prompt, result,
                   log, notices, ret>>

\* variant: the pause backs off after a rate-limited call
RateLimitPauseBackoff ==
    /\ pc = "rate_limit"
    /\ NeedsPause(batch_idx, Len(batches))
    /\ log' = Append(log, PauseEvent(batch_idx,
                 IF result.err = "rate_limit"
                 THEN 2 * RATE_LIMIT_DELAY_MS
                 ELSE RATE_LIMIT_DELAY_MS))
    /\ batch_idx' = batch_idx + 1
    /\ pc' = "loop"
    /\ UNCHANGED <<env, run, prev>>
    /\ UNCHANGED reportVars
    /\ UNCHANGED telemetryVars
    /\ UNCHANGED ciVars
    /\ UNCHANGED <<results, probe_idx, probes, probe_out, provider, GEMINI_COMMAND,
                   relevant, batches, batch_prompt, proc_out, result, insights,
                   history, notices, ret>>

\* variant: only the gemini backend is paced
RateLimitPauseGeminiOnly ==
    /\ pc = "rate_limit"
    /\ NeedsPause(batch_idx, Len(batches))
    /\ log' = IF provider = "GeminiCli"
              THEN Append(log, PauseEvent(batch_idx, RATE_LIMIT_DELAY_MS))
              ELSE log
    /\ batch_idx' = batch_idx + 1
    /\ pc' = "loop"
    /\ UNCHANGED <<env, run, prev>>
    /\ UNCHANGED reportVars
    /\ UNCHANGED telemetryVars
    /\ UNCHANGED ciVars
    /\ UNCHANGED <<results, probe_idx, probes, probe_out, provider, GEMINI_COMMAND,
                   relevant, batches, batch_prompt, proc_out, result, insights,
                   history, notices, ret>>

\* if batch_idx < total_batches - 1 { sleep(RATE_LIMIT_DELAY_MS) }
RateLimitPause ==
    /\ pc = "rate_limit"
    /\ NeedsPause(batch_idx, Len(batches))
    /\ log' = Append(log, PauseEvent(batch_idx, RATE_LIMIT_DELAY_MS))
    /\ batch_idx' = batch_idx + 1
    /\ pc' = "loop"
    /\ UNCHANGED <<env, run, prev>>
    /\ UNCHANGED reportVars
    /\ UNCHANGED telemetryVars
    /\ UNCHANGED ciVars
    /\ UNCHANGED <<results, probe_idx, probes, probe_out, provider, GEMINI_COMMAND,
                   relevant, batches, batch_prompt, proc_out, result, insights,
                   history, notices, ret>>

\* the last iteration: no sleep
SkipPause ==
    /\ pc = "rate_limit"
    /\ ~NeedsPause(batch_idx, Len(batches))
    /\ batch_idx' = batch_idx + 1
    /\ pc' = "loop"
    /\ UNCHANGED <<env, run, prev>>
    /\ UNCHANGED reportVars
    /\ UNCHANGED telemetryVars
    /\ UNCHANGED ciVars
    /\ UNCHANGED <<results, probe_idx, probes, probe_out, provider, GEMINI_COMMAND,
                   relevant, batches, batch_prompt, proc_out, result, insights,
                   log, history, notices, ret>>

\* the loop is exhausted: Ok(insights)
ReturnInsights ==
    /\ pc = "loop"
    /\ batch_idx > Len(batches)
    /\ ret' = ReturnOk(insights)
    /\ pc' = "done"
    /\ UNCHANGED <<env, run, prev>>
    /\ UNCHANGED reportVars
    /\ UNCHANGED telemetryVars
    /\ UNCHANGED ciVars
    /\ UNCHANGED <<results, probe_idx, probes, probe_out, provider, GEMINI_COMMAND,
                   relevant, batches, batch_idx, batch_prompt, proc_out, result,
                   insights, log, history, notices>>

Next ==
    \/ ProbeGemini
    \/ ProbeGh
    \/ ReturnNoProvider
    \/ ReturnNoIssues
    \/ PlanBatches
    \/ CallStart
    \/ CallReturn
    \/ Aggregate
    \/ RateLimitPause
    \/ SkipPause
    \/ ReturnInsights

Spec == Init /\ [][Next]_vars

----------------------------------------------------------------------------
(* Several calls of analyze_findings in one process *)

\* the first call of a process on a known machine
InitRuns ==
    /\ pc = "detect"
    /\ results \in RunInputs
    /\ probe_idx = 1
    /\ probes = <<>>
    /\ probe_out = "none"
    /\ provider = "undetected"
    /\ GEMINI_COMMAND = "unset"
    /\ relevant = <<>>
    /\ batches = <<>>
    /\ batch_idx = 0
    /\ batch_prompt = <<>>
    /\ proc_out = NoOutput
    /\ result = NoResult
    /\ insights = <<>>
    /\ log = <<>>
    /\ history = <<>>
    /\ notices = <<>>
    /\ ret = NotReturned
    /\ env \in RunEnvs
    /\ run = 1
    /\ prev = NoPrev
    /\ TelemetryNotStarted
    /\ CiNotStarted
    /\ ReportNotStarted

\* analyze_findings is called again: its locals are fresh, the static
\* GEMINI_COMMAND is what the earlier calls left, the machine may have changed
NewRun ==
    /\ pc = "done"
    /\ run < MaxRuns
    /\ run' = run + 1
    /\ prev' = [env |-> env, probes |-> probes, provider |-> provider]
    /\ env' \in RunEnvs
    /\ results' \in RunInputs
    /\ pc' = "detect"
    /\ probe_idx' = 1
    /\ probes' = <<>>
    /\ probe_out' = "none"
    /\ provider' = "undetected"
    /\ relevant' = <<>>
    /\ batches' = <<>>
    /\ batch_idx' = 0
    /\ batch_prompt' = <<>>
    /\ proc_out' = NoOutput
    /\ result' = NoResult
    /\ insights' = <<>>
    /\ log' = <<>>
    /\ history' = <<>>
    /\ notices' = <<>>
    /\ ret' = NotReturned
    /\ UNCHANGED GEMINI_COMMAND
    /\ UNCHANGED reportVars
    /\ UNCHANGED telemetryVars
    /\ UNCHANGED ciVars

NextRuns == Next \/ NewRun

SpecRuns == InitRuns /\ [][NextRuns]_vars

----------------------------------------------------------------------------
(* One call of analyze_findings on inputs that repeat a dependency *)

\* issue titles of the repeated dependencies
PromptTitles == {10, 20}

\* BATCH_SIZE findings that fill one batch; t is the title of their issue
PromptBlock(t) ==
    [i \in 1..BATCH_SIZE |->
        [name    |-> i,
         version |-> 1,
         issues  |-> <<[state |-> "open", title |-> t]>>]]

\* no finding at all, or two full batches whose contents are equal when the
\* titles are
PromptInputs ==
    {<<>>} \cup {PromptBlock(a) \o PromptBlock(b) : a \in PromptTitles, b \in PromptTitles}

InitPrompt ==
    /\ pc = "detect"
    /\ results \in PromptInputs
    /\ probe_idx = 1
    /\ probes = <<>>
    /\ probe_out = "none"
    /\ provider = "undetected"
    /\ GEMINI_COMMAND = "unset"
    /\ relevant = <<>>
    /\ batches = <<>>
    /\ batch_idx = 0
    /\ batch_prompt = <<>>
    /\ proc_out = NoOutput
    /\ result = NoResult
    /\ insights = <<>>
    /\ log = <<>>
    /\ history = <<>>
    /\ notices = <<>>
    /\ ret = NotReturned
    /\ env \in RunEnvs
    /\ run = 1
    /\ prev = NoPrev
    /\ TelemetryNotStarted
    /\ CiNotStarted
    /\ ReportNotStarted

SpecPrompt == InitPrompt /\ [][Next]_vars

----------------------------------------------------------------------------
(* One call of analyze_findings with the progress the program guarantees *)

\* the steps analyze_findings takes by itself: returns, planning, starting a
\* process, the aggregation and tokio's sleep
OwnStep ==
    \/ ReturnNoProvider
    \/ ReturnNoIssues
    \/ PlanBatches
    \/ CallStart
    \/ Aggregate
    \/ RateLimitPause
    \/ SkipPause
    \/ ReturnInsights

\* Command::output() waits for the child without a limit, so when a started
\* process returns is the child's doing: only the program's own steps are
\* sure to be taken
SpecLive ==
    /\ InitRuns
    /\ [][Next]_vars
    /\ WF_vars(OwnStep)

----------------------------------------------------------------------------
(* State machine: one call of report::execute *)

\* u64::to_string
Digit(d) == <<"0", "1", "2", "3", "4", "5", "6", "7", "8", "9">>[d + 1]

RECURSIVE U64ToString(_)
U64ToString(n) == IF n < 10 THEN <<Digit(n)>> ELSE U64ToString(n \div 10) \o <<Digit(n % 10)>>

\* the PR numbers of --pr, and the number of the PR of the current branch
PrArgs == {7, 123}
CurrentPr == 45

\* the models of --model
CopilotModels == {"claude-sonnet-4.5", "gpt-5"}

\* the commands the CLI parser can hand to execute
ReportCmds ==
    { [kind |-> k, pr |-> o, model |-> ""] :
          k \in {"Full", "Gemini"}, o \in {None} \cup {Some(n) : n \in PrArgs} }
    \cup { [kind |-> "Copilot", pr |-> o, model |-> m] :
          o \in {None} \cup {Some(n) : n \in PrArgs}, m \in CopilotModels }

\* what `gh pr view --json number` can give: no output, text that is no
\* JSON, JSON without a numeric "number", JSON with it
PrNumberResults ==
    { PortErr,
      PortOk([kind |-> "not_json", number |-> None]),
      PortOk([kind |-> "json", number |-> None]),
      PortOk([kind |-> "json", number |-> Some(CurrentPr)]) }

\* an absent JSON string
NoStr == [some |-> FALSE, s |-> ""]
Str(x) == [some |-> TRUE, s |-> x]

\* what `gh repo view --json owner,name` can give
RepoResults ==
    { PortErr, PortOk([kind |-> "not_json", login |-> NoStr, name |-> NoStr]) }
    \cup { PortOk([kind |-> "json", login |-> l, name |-> n]) :
              l \in {NoStr, Str("octo")}, n \in {NoStr, Str("hello")} }

\* what github.get_pr_diff can give
DiffResults == { PortErr, PortOk("diff content...") }

\* what `gh pr view <n> --json title,body` can give
PrViewResults ==
    { PortErr, PortOk([kind |-> "not_json", title |-> NoStr, body |-> NoStr]) }
    \cup { PortOk([kind |-> "json", title |-> t, body |-> b]) :
              t \in {NoStr, Str("Fix Bug")}, b \in {NoStr, Str("Fixed it")} }

\* what the gemini and the copilot command can give
GeminiReportResults == { PortErr, PortOk("Gemini Analysis Result") }
CopilotReportResults == { PortErr, PortOk("Copilot Analysis Result") }

\* what github.post_comment can give
PostResults == { PortErr, PortOk("posted") }

\* as_str().unwrap_or(default)
UnwrapOr(o, default) == IF o.some THEN o.s ELSE default

\* one call on a port
PortCall(port, name, args, res) ==
    [port |-> port, name |-> name, args |-> args, ok |-> res.ok]

\* return Err(..), by `?` or bail!
ReportFail(e) ==
    /\ report_ret' = [returned |-> TRUE, ok |-> FALSE, err |-> e]
    /\ report_pc' = "done"

InitReport ==
    /\ report_pc = "match_cmd"
    /\ report_cmd \in ReportCmds
    /\ pr_number = 0
    /\ report_type = ""
    /\ model = ""
    /\ owner = ""
    /\ repo = ""
    /\ diff = ""
    /\ title = ""
    /\ body = ""
    /\ final_report = <<>>
    /\ port_calls = <<>>
    /\ report_ret = [returned |-> FALSE, ok |-> FALSE, err |-> "none"]
    /\ pc = "detect"
    /\ results = <<>>
    /\ probe_idx = 1
    /\ probes = <<>>
    /\ probe_out = "none"
    /\ provider = "undetected"
    /\ GEMINI_COMMAND = "unset"
    /\ relevant = <<>>
    /\ batches = <<>>
    /\ batch_idx = 0
    /\ batch_prompt = <<>>
    /\ proc_out = NoOutput
    /\ result = NoResult
    /\ insights = <<>>
    /\ log = <<>>
    /\ history = <<>>
    /\ notices = <<>>
    /\ ret = NotReturned
    /\ env = AnyEnv
    /\ run = 1
    /\ prev = NoPrev
    /\ TelemetryNotStarted
    /\ CiNotStarted

\* let (pr_number, report_type, model) = match cmd { .. }
MatchCmd ==
    /\ report_pc = "match_cmd"
    /\ report_type' = CASE report_cmd.kind = "Full" -> "full"
                        [] report_cmd.kind = "Gemini" -> "gemini"
                        [] report_cmd.kind = "Copilot" -> "copilot"
    /\ model' = CASE report_cmd.kind = "Full" -> "claude-sonnet-4.5"
                  [] report_cmd.kind = "Gemini" -> ""
                  [] report_cmd.kind = "Copilot" -> report_cmd.model
    /\ report_pc' = "resolve_pr"
    /\ UNCHANGED <<report_cmd, pr_number, owner, repo, diff, title, body,
                   final_report, port_calls, report_ret>>
    /\ UNCHANGED analysisVars
    /\ UNCHANGED telemetryVars
    /\ UNCHANGED ciVars

\* if let Some(n) = pr_number { n }
ResolvePrGiven ==
    /\ report_pc = "resolve_pr"
    /\ report_cmd.pr.some
    /\ pr_number' = report_cmd.pr.n
    /\ report_pc' = "repo_view"
    /\ UNCHANGED <<report_cmd, report_type, model, owner, repo, diff, title,
                   body, final_report, port_calls, report_ret>>
    /\ UNCHANGED analysisVars
    /\ UNCHANGED telemetryVars
    /\ UNCHANGED ciVars

\* variant: output without a numeric number is taken as PR 0
ResolvePrCurrentLenient ==
    /\ report_pc = "resolve_pr"
    /\ ~report_cmd.pr.some
    /\ \E r \in PrNumberResults :
          /\ port_calls' = Append(port_calls,
                 PortCall("system", "gh", <<"pr", "view", "--json", "number">>, r))
          /\ IF ~r.ok
             THEN ReportFail("could_not_resolve") /\ UNCHANGED pr_number
             ELSE IF r.out.kind = "not_json"
             THEN ReportFail("json") /\ UNCHANGED pr_number
             ELSE /\ pr_number' = r.out.number.n
                  /\ report_pc' = "repo_view"
                  /\ UNCHANGED report_ret
    /\ UNCHANGED <<report_cmd, report_type, model, owner, repo, diff, title,
                   body, final_report>>
    /\ UNCHANGED analysisVars
    /\ UNCHANGED telemetryVars
    /\ UNCHANGED ciVars

\* else: gh pr view --json number, parsed with serde_json
ResolvePrCurrent ==
    /\ report_pc = "resolve_pr"
    /\ ~report_cmd.pr.some
    /\ \E r \in PrNumberResults :
          /\ port_calls' = Append(port_calls,
                 PortCall("system", "gh", <<"pr", "view", "--json", "number">>, r))
          /\ IF ~r.ok
             THEN ReportFail("could_not_resolve") /\ UNCHANGED pr_number
             ELSE IF r.out.kind = "not_json"
             THEN ReportFail("json") /\ UNCHANGED pr_number
             ELSE IF ~r.out.number.some
             THEN ReportFail("could_not_parse") /\ UNCHANGED pr_number
             ELSE /\ pr_number' = r.out.number.n
                  /\ report_pc' = "repo_view"
                  /\ UNCHANGED report_ret
    /\ UNCHANGED <<report_cmd, report_type, model, owner, repo, diff, title,
                   body, final_report>>
    /\ UNCHANGED analysisVars
    /\ UNCHANGED telemetryVars
    /\ UNCHANGED ciVars

\* gh repo view --json owner,name and the two unwrap_or fallbacks
RepoView ==
    /\ report_pc = "repo_view"
    /\ \E r \in RepoResults :
          /\ port_calls' = Append(port_calls,
                 PortCall("system", "gh", <<"repo", "view", "--json", "owner,name">>, r))
          /\ IF ~r.ok
             THEN ReportFail("repo_view") /\ UNCHANGED <<owner, repo>>
             ELSE IF r.out.kind = "not_json"
             THEN ReportFail("json") /\ UNCHANGED <<owner, repo>>
             ELSE /\ owner' = UnwrapOr(r.out.login, "iberi22")
                  /\ repo' = UnwrapOr(r.out.name, "agents-flows-recipes")
                  /\ report_pc' = "get_pr_diff"
                  /\ UNCHANGED report_ret
    /\ UNCHANGED <<report_cmd, pr_number, report_type, model, diff, title,
                   body, final_report>>
    /\ UNCHANGED analysisVars
    /\ UNCHANGED telemetryVars
    /\ UNCHANGED ciVars

\* github.get_pr_diff(owner, repo, pr_number).await?
GetPrDiff ==
    /\ report_pc = "get_pr_diff"
    /\ \E r \in DiffResults :
          /\ port_calls' = Append(port_calls,
                 PortCall("github", "get_pr_diff", <<owner, repo, pr_number>>, r))
          /\ IF ~r.ok
             THEN ReportFail("get_pr_diff") /\ UNCHANGED diff
             ELSE /\ diff' = r.out
                  /\ report_pc' = "pr_view"
                  /\ UNCHANGED report_ret
    /\ UNCHANGED <<report_cmd, pr_number, report_type, model, owner, repo,
                   title, body, final_report>>
    /\ UNCHANGED analysisVars
    /\ UNCHANGED telemetryVars
    /\ UNCHANGED ciVars

\* gh pr view <n> --json title,body, the two fallbacks and the head of the
\* report
PrView ==
    /\ report_pc = "pr_view"
    /\ \E r \in PrViewResults :
          /\ port_calls' = Append(port_calls,
                 PortCall("system", "gh",
                          <<"pr", "view", U64ToString(pr_number), "--json", "title,body">>,
                          r))
          /\ IF ~r.ok
             THEN ReportFail("pr_view") /\ UNCHANGED <<title, body, final_report>>
             ELSE IF r.out.kind = "not_json"
             THEN ReportFail("json") /\ UNCHANGED <<title, body, final_report>>
             ELSE /\ title' = UnwrapOr(r.out.title, "Unknown Title")
                  /\ body' = UnwrapOr(r.out.body, "")
                  /\ final_report' = <<<<"header", pr_number>>, <<"generated_by">>>>
                  /\ report_pc' = "gemini"
                  /\ UNCHANGED report_ret
    /\ UNCHANGED <<report_cmd, pr_number, report_type, model, owner, repo, diff>>
    /\ UNCHANGED analysisVars
    /\ UNCHANGED telemetryVars
    /\ UNCHANGED ciVars

\* if report_type == "full" || report_type == "gemini"
WantsGemini(t) == t = "full" \/ t = "gemini"

\* variant: the copilot section is not gated
WantsCopilotAlways(t) == TRUE

\* if report_type == "full" || report_type == "copilot"
WantsCopilot(t) == t = "full" \/ t = "copilot"

\* variant: `?` on the gemini command - its failure ends the report
GeminiSectionFatal ==
    /\ report_pc = "gemini"
    /\ WantsGemini(report_type)
    /\ \E r \in GeminiReportResults :
          /\ port_calls' = Append(port_calls,
                 PortCall("system", "gemini",
                          <<"-p", <<"gemini_prompt", title, body, diff>>, "-o", "text">>,
                          r))
          /\ IF r.ok
             THEN /\ final_report' = Append(final_report, <<"gemini", r.out>>)
                  /\ report_pc' = "copilot"
                  /\ UNCHANGED report_ret
             ELSE ReportFail("gemini") /\ UNCHANGED final_report
    /\ UNCHANGED <<report_cmd, pr_number, report_type, model, owner, repo, diff,
                   title, body>>
    /\ UNCHANGED analysisVars
    /\ UNCHANGED telemetryVars
    /\ UNCHANGED ciVars

\* the gemini section: the command is run, its output is appended on Ok
GeminiSection ==
    /\ report_pc = "gemini"
    /\ WantsGemini(report_type)
    /\ \E r \in GeminiReportResults :
          /\ port_calls' = Append(port_calls,
                 PortCall("system", "gemini",
                          <<"-p", <<"gemini_prompt", title, body, diff>>, "-o", "text">>,
                          r))
          /\ final_report' = IF r.ok
                             THEN Append(final_report, <<"gemini", r.out>>)
                             ELSE final_report
    /\ report_pc' = "copilot"
    /\ UNCHANGED <<report_cmd, pr_number, report_type, model, owner, repo, diff,
                   title, body, report_ret>>
    /\ UNCHANGED analysisVars
    /\ UNCHANGED telemetryVars
    /\ UNCHANGED ciVars

\* the condition at line 104 is false
SkipGemini ==
    /\ report_pc = "gemini"
    /\ ~WantsGemini(report_type)
    /\ report_pc' = "copilot"
    /\ UNCHANGED <<report_cmd, pr_number, report_type, model, owner, repo, diff,
                   title, body, final_report, port_calls, report_ret>>
    /\ UNCHANGED analysisVars
    /\ UNCHANGED telemetryVars
    /\ UNCHANGED ciVars

\* the copilot section: the command is run, its output is appended on Ok
CopilotSection ==
    /\ report_pc = "copilot"
    /\ WantsCopilot(report_type)
    /\ \E r \in CopilotReportResults :
          /\ port_calls' = Append(port_calls,
                 PortCall("system", "copilot",
                          <<"-p", <<"copilot_prompt", title, body, diff>>,
                            "--model", model, "-s", "--allow-all-tools">>,
                          r))
          /\ final_report' = IF r.ok
                             THEN Append(final_report, <<"copilot", model, r.out>>)
                             ELSE final_report
    /\ report_pc' = "post_comment"
    /\ UNCHANGED <<report_cmd, pr_number, report_type, model, owner, repo, diff,
                   title, body, report_ret>>
    /\ UNCHANGED analysisVars
    /\ UNCHANGED telemetryVars
    /\ UNCHANGED ciVars

\* the condition at line 120 is false
SkipCopilot ==
    /\ report_pc = "copilot"
    /\ ~WantsCopilot(report_type)
    /\ report_pc' = "post_comment"
    /\ UNCHANGED <<report_cmd, pr_number, report_type, model, owner, repo, diff,
                   title, body, final_report, port_calls, report_ret>>
    /\ UNCHANGED analysisVars
    /\ UNCHANGED telemetryVars
    /\ UNCHANGED ciVars

\* variant: the comment goes to the fallback repository, whatever was resolved
PostCommentFallbackRepo ==
    /\ report_pc = "post_comment"
    /\ final_report' = Append(final_report, <<"footer">>)
    /\ \E r \in PostResults :
          /\ port_calls' = Append(port_calls,
                 PortCall("github", "post_comment",
                          <<"iberi22", "agents-flows-recipes", pr_number,
                            Append(final_report, <<"footer">>)>>,
                          r))
          /\ report_ret' = IF r.ok
                           THEN [returned |-> TRUE, ok |-> TRUE, err |-> "none"]
                           ELSE [returned |-> TRUE, ok |-> FALSE, err |-> "post_comment"]
    /\ report_pc' = "done"
    /\ UNCHANGED <<report_cmd, pr_number, report_type, model, owner, repo, diff,
                   title, body>>
    /\ UNCHANGED analysisVars
    /\ UNCHANGED telemetryVars
    /\ UNCHANGED ciVars

\* the footer and github.post_comment(owner, repo, pr_number, &final_report)
PostComment ==
    /\ report_pc = "post_comment"
    /\ final_report' = Append(final_report, <<"footer">>)
    /\ \E r \in PostResults :
          /\ port_calls' = Append(port_calls,
                 PortCall("github", "post_comment",
                          <<owner, repo, pr_number, Append(final_report, <<"footer">>)>>,
                          r))
          /\ report_ret' = IF r.ok
                           THEN [returned |-> TRUE, ok |-> TRUE, err |-> "none"]
                           ELSE [returned |-> TRUE, ok |-> FALSE, err |-> "post_comment"]
    /\ report_pc' = "done"
    /\ UNCHANGED <<report_cmd, pr_number, report_type, model, owner, repo, diff,
                   title, body>>
    /\ UNCHANGED analysisVars
    /\ UNCHANGED telemetryVars
    /\ UNCHANGED ciVars

NextReport ==
    \/ MatchCmd
    \/ ResolvePrGiven
    \/ ResolvePrCurrent
    \/ RepoView
    \/ GetPrDiff
    \/ PrView
    \/ GeminiSection
    \/ SkipGemini
    \/ CopilotSection
    \/ SkipCopilot
    \/ PostComment

SpecReport == InitReport /\ [][NextReport]_vars

----------------------------------------------------------------------------
(* Vocabulary of the properties *)

Ceil(n, b) == (n + b - 1) \div b

Range(f) == {f[i] : i \in DOMAIN f}

\* the findings of an input that have at least one issue, in input order
RECURSIVE CandidatesOf(_)
CandidatesOf(rs) ==
    IF rs = <<>>
    THEN <<>>
    ELSE (IF Head(rs).issues = <<>> THEN <<>> ELSE <<Head(rs)>>)
            \o CandidatesOf(Tail(rs))

N == Len(CandidatesOf(results))

Events(kind) == {i \in 1..Len(log) : log[i].ev = kind}
Calls == Cardinality(Events("call"))
Pauses == Cardinality(Events("pause"))

Done == pc = "done"
Selected == provider \in {"GeminiCli", "GitHubModels"}

\* positions in the insight list of the findings of batch k
BatchPositions(k) ==
    {j \in 1..N : (k - 1) * BATCH_SIZE < j /\ j <= k * BATCH_SIZE}

\* the i-th returned Insight belongs to the i-th candidate
Positional(list) ==
    /\ Len(list) = N
    /\ \A i \in 1..N :
          /\ list[i].dependency_name = CandidatesOf(results)[i].name
          /\ list[i].version = CandidatesOf(results)[i].version

----------------------------------------------------------------------------
(* C1 *)

\* C1 as stated: every finished run, whatever the detection found, returns
\* exactly one Insight per candidate finding, the i-th Insight carrying the
\* dependency name and version of the i-th candidate.
C1_AlwaysOnePerCandidate == Done => Positional(ret.value)

\* C1 amended: every finished run in which a backend was selected returns
\* exactly one Insight per candidate finding, in candidate order, whatever
\* pattern of per-batch successes and failures occurred.
C1_OnePerCandidateWhenSelected ==
    (Done /\ Selected) => (ret.ok /\ Positional(ret.value))

C1_Witness ==
    /\ Done /\ Selected
    /\ N > BATCH_SIZE
    /\ Len(results) > N
    /\ \E k \in 1..Len(history) : history[k].ok
    /\ \E k \in 1..Len(history) : ~history[k].ok

----------------------------------------------------------------------------
(* C2 *)

\* C2: a failed executor call never aborts the run: at every moment the
\* insights of each processed batch carry the placeholder if that batch's call
\* failed and that batch's own analysis text if it succeeded, and a run with a
\* selected backend returns Ok only after every batch has been processed.
C2_FailureIsolated ==
    /\ \A k \in 1..Len(history) : \A j \in BatchPositions(k) :
          /\ j <= Len(insights)
          /\ insights[j].analysis =
                (IF history[k].ok THEN history[k].text ELSE PLACEHOLDER)
    /\ (Done /\ Selected) =>
          /\ ret.ok
          /\ ret.value = insights
          /\ Len(history) = Ceil(N, BATCH_SIZE)
          /\ Len(insights) = N

\* batch 1 succeeded with a real text, batch 2 failed, the run is over
C2_Witness ==
    /\ Done /\ Selected
    /\ Len(history) = 2
    /\ history[1].ok /\ history[1].text = OK_TEXT
    /\ ~history[2].ok
    /\ ret.value[1].analysis = OK_TEXT
    /\ ret.value[N].analysis = PLACEHOLDER
    /\ Len(ret.value) = Len(batches[1]) + Len(batches[2])

----------------------------------------------------------------------------
(* C3 *)

\* C3: a finished run with a selected backend and N >= 1 candidates made
\* exactly ceil(N / BATCH_SIZE) executor calls, one per batch in batch order
\* (no batch is called twice, whether or not its call failed), and exactly
\* ceil(N / BATCH_SIZE) - 1 pauses.
C3_CallAndPauseCount ==
    (Done /\ Selected /\ N >= 1) =>
        /\ Calls = Ceil(N, BATCH_SIZE)
        /\ Pauses = Ceil(N, BATCH_SIZE) - 1
        /\ \A k \in 1..Ceil(N, BATCH_SIZE) :
              Cardinality({i \in Events("call") : log[i].batch = k}) = 1

\* 12 candidates, all three calls failed: 3 calls and 2 pauses
C3_Witness ==
    /\ Done /\ Selected
    /\ N = 12
    /\ Calls = 3 /\ Pauses = 2
    /\ \A k \in 1..Len(history) : ~history[k].ok

----------------------------------------------------------------------------
(* C4 *)

\* C4: when every probe misses, analyze_findings returns Ok with an empty
\* list, has made no executor call and no pause, and has printed the
\* no-provider notice.
C4_NoProviderIsEmptySuccess ==
    (Done /\ provider = "None") =>
        /\ ret.returned /\ ret.ok /\ ret.value = <<>>
        /\ Calls = 0 /\ Pauses = 0
        /\ insights = <<>>
        /\ notices = <<"no_provider">>
        /\ Len(probes) = Len(gemini_commands) + 1
        /\ probe_out # "exit_zero"

\* no backend although there were candidates to analyze
C4_Witness == Done /\ provider = "None" /\ N >= 1 /\ ret.ok

----------------------------------------------------------------------------
(* C5 *)

AllWithoutIssues == \A i \in 1..Len(results) : results[i].issues = <<>>

\* C5: for an input in which no finding has an issue (the empty input
\* included) no executor call and no pause ever happens, no Insight is ever
\* produced, and the run returns the empty list.
C5_NoIssuesNoCalls ==
    AllWithoutIssues =>
        /\ log = <<>>
        /\ insights = <<>>
        /\ pc \notin {"loop", "in_flight", "aggregate", "rate_limit"}
        /\ Done => (ret.ok /\ ret.value = <<>>)

\* a non-empty input without any issue, analyzed with a backend selected
C5_Witness == Done /\ Selected /\ Len(results) >= 1 /\ AllWithoutIssues

----------------------------------------------------------------------------
(* C6 *)

\* C6 as stated: whenever the candidate count is zero the run ends with the
\* "nothing to analyze" notice, whatever the backend availability.
C6_NoticeWhateverBackend == (Done /\ N = 0) => "no_issues" \in Range(notices)

\* C6 amended: when a backend was selected and the candidate count after
\* filtering is zero, the run ends with the "nothing to analyze" notice, the
\* empty list and no executor call; when no backend is available the filter
\* is not reached and only the no-provider notice is printed.
C6_NoticeWhenSelected ==
    /\ (Done /\ Selected /\ N = 0) =>
          /\ notices = <<"no_issues">>
          /\ ret.ok /\ ret.value = <<>>
          /\ Calls = 0 /\ Pauses = 0
    /\ (Done /\ provider = "None") => notices = <<"no_provider">>
    /\ (Done /\ N > 0 /\ Selected) => notices = <<>>

C6_Witness ==
    /\ Done /\ provider = "GitHubModels" /\ N = 0 /\ Len(results) = 1
    /\ notices = <<"no_issues">>

----------------------------------------------------------------------------
(* C7 *)

\* C7: pauses happen strictly between executor calls: the first event of a
\* run is a call, calls and pauses alternate (exactly one pause between two
\* consecutive calls, never two pauses in a row), and the last event of a
\* finished run is a call.
C7_PausesOnlyBetweenCalls ==
    /\ log # <<>> => log[1].ev = "call"
    /\ \A i \in 1..(Len(log) - 1) : log[i].ev # log[i + 1].ev
    /\ (Done /\ log # <<>>) => log[Len(log)].ev = "call"
    /\ \A i \in Events("call") : \A j \in Events("call") :
          i < j => \E p \in Events("pause") : i < p /\ p < j

C7_Witness ==
    /\ Done
    /\ Len(log) = 5
    /\ log[1].ev = "call" /\ log[2].ev = "pause" /\ log[3].ev = "call"
    /\ log[4].ev = "pause" /\ log[5].ev = "call"

----------------------------------------------------------------------------
(* C8 *)

\* C8: the pause is flat: every pause lasts RATE_LIMIT_DELAY_MS, and whatever
\* the outcome of a non-final batch was (success, or a failure of any class,
\* rate-limited included), that pause has happened before the next batch is
\* reached and the next call follows it.
C8_FlatPause ==
    /\ \A i \in Events("pause") : log[i].ms = RATE_LIMIT_DELAY_MS
    /\ (pc = "loop" /\ 2 <= batch_idx /\ batch_idx <= Len(batches)) =>
          log[Len(log)] = PauseEvent(batch_idx - 1, RATE_LIMIT_DELAY_MS)
    /\ (pc = "in_flight" /\ 2 <= batch_idx) =>
          /\ log[Len(log) - 1] = PauseEvent(batch_idx - 1, RATE_LIMIT_DELAY_MS)
          /\ log[Len(log)].ev = "call"
          /\ log[Len(log)].batch = batch_idx

\* the call of batch 1 failed as rate-limited, the pause was taken and the
\* call of batch 2 is under way
C8_Witness ==
    /\ pc = "in_flight" /\ batch_idx = 2
    /\ result.err = "rate_limit"
    /\ log[2] = PauseEvent(1, RATE_LIMIT_DELAY_MS)

----------------------------------------------------------------------------
(* C9 *)

Planned == pc \in {"loop", "in_flight", "aggregate", "rate_limit"}

\* C9: once planned, the batches partition the candidate sequence: there are
\* ceil(N / BATCH_SIZE) of them, each non-empty and of at most BATCH_SIZE
\* findings, each but the last of exactly BATCH_SIZE, and the j-th finding of
\* batch k is the candidate at position (k - 1) * BATCH_SIZE + j, every
\* candidate position being covered.
C9_BatchesPartitionCandidates ==
    Planned =>
        /\ Len(batches) = Ceil(Len(relevant), BATCH_SIZE)
        /\ \A k \in 1..Len(batches) :
              /\ 1 <= Len(batches[k]) /\ Len(batches[k]) <= BATCH_SIZE
              /\ k < Len(batches) => Len(batches[k]) = BATCH_SIZE
              /\ \A j \in 1..Len(batches[k]) :
                    /\ (k - 1) * BATCH_SIZE + j <= Len(relevant)
                    /\ batches[k][j] = relevant[(k - 1) * BATCH_SIZE + j]
        /\ \A i \in 1..Len(relevant) :
              /\ Ceil(i, BATCH_SIZE) <= Len(batches)
              /\ i - (Ceil(i, BATCH_SIZE) - 1) * BATCH_SIZE
                    <= Len(batches[Ceil(i, BATCH_SIZE)])

\* 12 candidates: batches of 5, 5 and 2
C9_Witness ==
    /\ Planned
    /\ Len(relevant) = 12
    /\ Len(batches) = 3
    /\ Len(batches[1]) = 5 /\ Len(batches[2]) = 5 /\ Len(batches[3]) = 2

----------------------------------------------------------------------------
(* C10 *)

\* names of the findings a prompt lists
PromptNames(prompt) ==
    {prompt[s][3] : s \in {t \in 1..Len(prompt) : prompt[t][1] = "library"}}

\* C10: the candidates are exactly the input findings that have at least one
\* issue, in input order, and a finding without issues is in no batch, is
\* listed in no prompt and receives no Insight.
C10_CandidatesAreFindingsWithIssues ==
    /\ (Planned \/ (Done /\ Selected)) => relevant = CandidatesOf(results)
    /\ \A i \in 1..Len(results) :
          results[i].issues = <<>> =>
              /\ \A j \in 1..Len(relevant) : relevant[j].name # results[i].name
              /\ \A k \in 1..Len(batches) : \A j \in 1..Len(batches[k]) :
                    batches[k][j].name # results[i].name
              /\ results[i].name \notin PromptNames(batch_prompt)
              /\ \A j \in 1..Len(insights) :
                    insights[j].dependency_name # results[i].name
    /\ \A i \in 1..Len(results) :
          (results[i].issues # <<>> /\ (Planned \/ (Done /\ Selected))) =>
              \E j \in 1..Len(relevant) : relevant[j] = results[i]
    /\ \A i \in 1..Len(relevant) : \A j \in 1..Len(relevant) :
          i < j => relevant[i].name < relevant[j].name

\* an input whose first finding has no issue, analyzed to the end
C10_Witness ==
    /\ Done /\ Selected
    /\ Len(results) >= 2
    /\ results[1].issues = <<>>
    /\ Len(ret.value) = Len(results) - 1
    /\ ret.value[1].dependency_name = 2

----------------------------------------------------------------------------
(* C11 *)

\* the backend a command line belongs to
BackendOf(cmd) == IF cmd = "gh" THEN "GitHubModels" ELSE "GeminiCli"

\* C11: the backend is fixed for the run: every executor call made so far
\* went to the backend detection selected, all calls of the run went to the
\* same command, and no batch was sent twice, whether or not calls failed.
C11_BackendFixedForRun ==
    /\ \A i \in Events("call") :
          /\ Selected
          /\ log[i].cmd \in Range(gemini_commands) \cup {"gh"}
          /\ BackendOf(log[i].cmd) = provider
    /\ \A i \in Events("call") : \A j \in Events("call") :
          /\ log[i].cmd = log[j].cmd
          /\ log[i].batch = log[j].batch => i = j

\* a gemini run of three calls whose first call failed
C11_Witness ==
    /\ Done /\ provider = "GeminiCli"
    /\ Calls = 3
    /\ ~history[1].ok
    /\ log[1].cmd = "gemini.exe" /\ log[5].cmd = "gemini.exe"

----------------------------------------------------------------------------
(* C12 *)

\* the priority list: the gemini spellings, then gh
ProbeOrder == <<"gemini", "gemini.cmd", "gemini.exe", "gemini.bat", "gh">>

\* C12: the probes made so far are an initial part of gemini, gemini.cmd,
\* gemini.exe, gemini.bat, gh; while detection goes on the latest probe was a
\* miss; a selection is the last command probed, its probe succeeded and
\* nothing was probed after it; gh is probed only after the four gemini
\* spellings; None means that all five were probed and the last one missed.
C12_ProbeOrderFirstSuccessWins ==
    /\ Len(probes) <= Len(ProbeOrder)
    /\ probes = SubSeq(ProbeOrder, 1, Len(probes))
    /\ pc = "detect" =>
          /\ Len(probes) < Len(ProbeOrder)
          /\ probes # <<>> => probe_out # "exit_zero"
    /\ provider = "GeminiCli" =>
          /\ probe_out = "exit_zero"
          /\ Len(probes) <= 4
          /\ pc # "detect"
    /\ provider = "GitHubModels" =>
          /\ probe_out = "exit_zero"
          /\ probes = ProbeOrder
    /\ provider = "None" =>
          /\ probe_out # "exit_zero"
          /\ probes = ProbeOrder
    /\ pc # "detect" => provider \in {"GeminiCli", "GitHubModels", "None"}

\* gemini and gemini.cmd missed, gemini.exe answered: nothing else is probed
C12_Witness ==
    /\ Done /\ provider = "GeminiCli"
    /\ probes = <<"gemini", "gemini.cmd", "gemini.exe">>
    /\ Calls >= 1

----------------------------------------------------------------------------
(* C13 *)

IsPrefix(a, b) == Len(a) <= Len(b) /\ a = SubSeq(b, 1, Len(a))

\* C13: a run whose presence checks answer as they did for the run before
\* it makes the same checks in the same order (at every moment the checks
\* made are an initial part of the earlier run's) and ends detection with
\* the same selection.
C13_DetectionDeterministic ==
    (run >= 2 /\ env = prev.env) =>
        /\ IsPrefix(probes, prev.probes)
        /\ pc # "detect" =>
              /\ probes = prev.probes
              /\ provider = prev.provider

\* the second run on a machine where gemini misses and gemini.cmd answers
C13_Witness ==
    /\ run = 2 /\ env = prev.env
    /\ Done
    /\ provider = "GeminiCli"
    /\ probes = <<"gemini", "gemini.cmd">>

----------------------------------------------------------------------------
(* C14 *)

Miss(o) == o \in {"spawn_error", "exit_nonzero"}

\* C14: a presence check that cannot be spawned or exits non-zero changes
\* nothing but the detector's position: after a missed gemini check the next
\* candidate is due, after a missed gh check the selection is None, and in
\* neither case has analyze_findings returned; a finished detection has
\* exactly one of the three selections and no run ever returns an error.
C14_ProbeMissNotFatal ==
    [][ /\ (probes' # probes /\ Miss(probe_out')) =>
              /\ ret' = ret /\ ~ret'.returned
              /\ insights' = insights /\ log' = log /\ notices' = notices
              /\ GEMINI_COMMAND' = GEMINI_COMMAND
              /\ IF Len(probes) < Len(gemini_commands)
                 THEN pc' = "detect" /\ probe_idx' = probe_idx + 1
                      /\ provider' = "undetected"
                 ELSE pc' = "detected" /\ provider' = "None"
        /\ pc' # "detect" => provider' \in {"GeminiCli", "GitHubModels", "None"}
        /\ ret'.returned => ret'.ok
      ]_vars

\* the gh check, the last of the five, could not be spawned: the selection is
\* None and the run has returned successfully
C14_Witness ==
    /\ Done /\ ret.ok
    /\ provider = "None"
    /\ Len(probes) = 5
    /\ probe_out = "spawn_error"

----------------------------------------------------------------------------
(* C15 *)

Injective(list) ==
    \A i \in 1..Len(list) : \A j \in 1..Len(list) : list[i] = list[j] => i = j

\* C15: in a run that selected the gemini backend every command was checked
\* at most once, the handle holds a command from the end of detection on,
\* hence before the first executor call, and every executor call of the run
\* started exactly the spelling whose presence check succeeded in this
\* run's detection, which is the last command checked.
C15_CallsUseDetectedVariant ==
    (provider = "GeminiCli" /\ pc # "detect") =>
        /\ Injective(probes)
        /\ GEMINI_COMMAND # "unset"
        /\ \A i \in Events("call") : log[i].cmd = probes[Len(probes)]

----------------------------------------------------------------------------
(* C16 *)

\* the command a first call of analyze_findings starts after this detection
FirstCallCmd ==
    IF provider = "GeminiCli"
    THEN GeminiCmd(OnceLockSet("unset", probes[Len(probes)]))
    ELSE "gh"

\* C16: a later call of analyze_findings behaves like a first call in the
\* same environment, whatever the earlier run detected: each executor call
\* of a later run starts the command that a first call with the same
\* detection would start.
C16_NoStateBetweenRuns ==
    run >= 2 => \A i \in Events("call") : log[i].cmd = FirstCallCmd

----------------------------------------------------------------------------
(* C17 *)

\* the batches aggregated so far
Aggregated == 1..Len(history)

\* C17: the insights of one aggregated batch all carry the same analysis
\* text: the text of the batch's response when the call succeeded, the
\* placeholder when it failed; every finding of the batch has its Insight.
C17_SameTextWithinBatch ==
    /\ Len(insights) = Min(Len(history) * BATCH_SIZE, N)
    /\ \A k \in Aggregated : \A i \in BatchPositions(k) :
          /\ \A j \in BatchPositions(k) :
                insights[i].analysis = insights[j].analysis
          /\ insights[i].analysis =
                IF history[k].ok THEN history[k].text ELSE PLACEHOLDER

\* a full batch that succeeded, followed by a batch of two that failed
C17_Witness ==
    /\ Done /\ N = 7 /\ Len(history) = 2
    /\ history[1].ok /\ ~history[2].ok
    /\ insights[1].analysis = OK_TEXT /\ insights[5].analysis = OK_TEXT
    /\ insights[6].analysis = PLACEHOLDER /\ insights[7].analysis = PLACEHOLDER

----------------------------------------------------------------------------
(* C18 *)

\* C18: the placeholder tells a failed batch from a successful one: an
\* Insight's analysis is the placeholder if and only if the executor call of
\* its batch failed.
C18_PlaceholderIffFailed ==
    \A k \in Aggregated : \A i \in BatchPositions(k) :
        (i <= Len(insights)) =>
            ((insights[i].analysis = PLACEHOLDER) <=> ~history[k].ok)

----------------------------------------------------------------------------
(* C19 *)

\* C19: no step removes or changes an Insight already appended, whatever the
\* outcome of the batch being processed, and the list returned is the list
\* accumulated.
C19_PartialResultsKept ==
    [][ /\ IsPrefix(insights, insights')
        /\ (ret'.returned /\ Selected') => ret'.value = insights'
      ]_vars

\* a successful first batch followed by two failed ones, returned whole
C19_Witness ==
    /\ Done /\ Len(history) = 3
    /\ history[1].ok /\ ~history[2].ok /\ ~history[3].ok
    /\ Len(ret.value) = N
    /\ ret.value[1].analysis = OK_TEXT
    /\ ret.value[N].analysis = PLACEHOLDER

----------------------------------------------------------------------------
(* C20 *)

\* C20: no executor call blocks the run: whenever a backend process has
\* been started, the call comes back with an outcome for its batch and the
\* run finishes.
C20_CallsComeBack ==
    /\ (pc = "in_flight") ~> (pc = "aggregate")
    /\ (pc = "in_flight") ~> Done

----------------------------------------------------------------------------
(* C21 *)

\* the k-th group of at most BATCH_SIZE candidates of the input
CandidateBatch(k) ==
    SubSeq(CandidatesOf(results), (k - 1) * BATCH_SIZE + 1, Min(k * BATCH_SIZE, N))

\* how many of the first i log entries are executor calls
CallsUpTo(i) == Cardinality({j \in Events("call") : j <= i})

\* C21: the batches go through one sequential flow in input order: the k-th
\* executor call is the call of batch k and carries the prompt rendered from
\* the k-th group of candidates; the calls started exceed the batches
\* aggregated by one exactly while a call is being made or its outcome waits
\* to be aggregated, so at most one call is in flight; and when call k+1 has
\* started the insights of batches 1..k are in the list.
C21_SequentialInOrder ==
    /\ \A i \in Events("call") :
          /\ log[i].batch = CallsUpTo(i)
          /\ log[i].prompt = build_batch_prompt(CandidateBatch(CallsUpTo(i)))
    /\ Calls - Len(history) = IF pc \in {"in_flight", "aggregate"} THEN 1 ELSE 0
    /\ Calls >= 1 => Len(insights) >= (Calls - 1) * BATCH_SIZE

\* the third call is in flight, the ten insights of two batches are there
C21_Witness ==
    /\ pc = "in_flight"
    /\ Calls = 3
    /\ Len(insights) = 10
    /\ log[5].prompt = build_batch_prompt(CandidateBatch(3))
    /\ log[5].prompt # log[1].prompt

----------------------------------------------------------------------------
(* C22 *)

\* the ways one executor call can fail
BatchFailures ==
    {"spawn", "parse", "empty", "rate_limit", "not_authenticated",
     "gemini_error", "no_access", "gh_error"}

\* C22: no failure of a batch ends the run with an error: when a call has
\* failed, for whichever reason, the run has not returned; once its outcome
\* is aggregated every finding of the batch has a placeholder Insight; and a
\* run that returns, returns successfully, with one Insight per candidate
\* when a backend was selected.
C22_BatchFailureNeverAborts ==
    /\ (pc \in {"aggregate", "rate_limit"} /\ ~result.ok) =>
          /\ result.err \in BatchFailures
          /\ ~ret.returned
    /\ (pc = "rate_limit" /\ ~result.ok) =>
          \A i \in BatchPositions(batch_idx) :
              /\ i <= Len(insights)
              /\ insights[i].analysis = PLACEHOLDER
    /\ ret.returned =>
          /\ ret.ok
          /\ Selected => Len(ret.value) = N

\* the process of the second, last batch could not be spawned: the run
\* returned Ok with a placeholder for the sixth candidate
C22_Witness ==
    /\ Done /\ ret.ok
    /\ N = 6 /\ Calls = 2
    /\ result.err = "spawn"
    /\ Len(ret.value) = 6
    /\ ret.value[6].analysis = PLACEHOLDER

----------------------------------------------------------------------------
(* C23 *)

GeminiReturned == pc = "aggregate" /\ provider = "GeminiCli"

\* C23: a gemini call that has returned is a Success only if the process was
\* spawned and exited zero, its standard output parsed as an object with the
\* response field and the response, stripped of its fence markers and
\* trimmed, is not empty, and in that case it is a Success; output that does
\* not parse fails as such, a response that strips to nothing fails as
\* empty; the text of a Success is not empty and neither starts nor ends
\* with whitespace.
C23_GeminiSuccess ==
    GeminiReturned =>
        /\ result.ok <=>
              /\ proc_out.spawned /\ proc_out.success
              /\ proc_out.stdout.kind = "object"
              /\ Cleaned(proc_out.stdout.response) # <<>>
        /\ (proc_out.spawned /\ proc_out.success
              /\ proc_out.stdout.kind # "object") => result.err = "parse"
        /\ (proc_out.spawned /\ proc_out.success
              /\ proc_out.stdout.kind = "object"
              /\ Cleaned(proc_out.stdout.response) = <<>>) => result.err = "empty"
        /\ result.ok =>
              /\ result.text # <<>>
              /\ ~IsWhitespace(result.text[1])
              /\ ~IsWhitespace(result.text[Len(result.text)])

\* a fenced response with line breaks inside the fences comes back as its
\* bare text
C23_Witness ==
    /\ GeminiReturned
    /\ proc_out.stdout.kind = "object"
    /\ proc_out.stdout.response =
          FENCE_JSON \o <<"\n">> \o OK_TEXT \o <<"\n">> \o FENCE
    /\ result.ok /\ result.text = OK_TEXT

----------------------------------------------------------------------------
(* C24 *)

RateSignature(e) == Contains(e, <<"4", "2", "9">>) \/ Contains(e, <<"r", "a", "t", "e">>)
AuthSignature(e) ==
    Contains(e, <<"a", "u", "t", "h">>) \/ Contains(e, <<"l", "o", "g", "i", "n">>)

\* C24: a gemini call whose process exited non-zero is a Failure of exactly
\* one class: rate-limited when the error output has "429" or "rate", else
\* not-authenticated when it has "auth" or "login", else generic; error
\* output with both signatures is rate-limited.
C24_GeminiFailureClass ==
    (GeminiReturned /\ proc_out.spawned /\ ~proc_out.success) =>
        /\ ~result.ok
        /\ result.err \in {"rate_limit", "not_authenticated", "gemini_error"}
        /\ result.err = "rate_limit" <=> RateSignature(proc_out.stderr)
        /\ result.err = "not_authenticated" <=>
              (AuthSignature(proc_out.stderr) /\ ~RateSignature(proc_out.stderr))
        /\ result.err = "gemini_error" <=>
              (~AuthSignature(proc_out.stderr) /\ ~RateSignature(proc_out.stderr))

\* error output that mentions both auth and 429
C24_Witness ==
    /\ GeminiReturned /\ proc_out.spawned /\ ~proc_out.success
    /\ AuthSignature(proc_out.stderr) /\ RateSignature(proc_out.stderr)
    /\ result.err = "rate_limit"

----------------------------------------------------------------------------
(* C25 *)

GhReturned == pc = "aggregate" /\ provider = "GitHubModels"

Blank(s) == \A i \in 1..Len(s) : IsWhitespace(s[i])

\* C25: a gh call that has returned is a Success exactly when the process
\* was spawned, exited zero and printed something that is not blank; a zero
\* exit with blank output fails as empty; a non-zero exit fails, as an
\* entitlement problem when the error output has "403" or "no_access", as
\* generic otherwise.
C25_GhOutcome ==
    GhReturned =>
        /\ result.ok <=>
              (proc_out.spawned /\ proc_out.success /\ ~Blank(proc_out.stdout))
        /\ (proc_out.spawned /\ proc_out.success /\ Blank(proc_out.stdout)) =>
              result.err = "empty"
        /\ (proc_out.spawned /\ ~proc_out.success) =>
              /\ ~result.ok
              /\ result.err =
                    IF Contains(proc_out.stderr, <<"4", "0", "3">>)
                       \/ Contains(proc_out.stderr,
                                   <<"n", "o", "_", "a", "c", "c", "e", "s", "s">>)
                    THEN "no_access" ELSE "gh_error"

\* gh exited zero and printed a blank and a line break
C25_Witness ==
    /\ GhReturned
    /\ proc_out.spawned /\ proc_out.success
    /\ proc_out.stdout = <<" ", "\n">>
    /\ ~result.ok /\ result.err = "empty"

----------------------------------------------------------------------------
(* C26 *)

\* the Insight list that follows from the candidates and the outcomes of the
\* batches alone
ExpectedInsights(cands, outcomes) ==
    [i \in 1..Min(Len(outcomes) * BATCH_SIZE, Len(cands)) |->
        [dependency_name |-> cands[i].name,
         version         |-> cands[i].version,
         analysis        |->
             IF outcomes[((i - 1) \div BATCH_SIZE) + 1].ok
             THEN outcomes[((i - 1) \div BATCH_SIZE) + 1].text
             ELSE PLACEHOLDER]]

\* calls and pauses of a run of nb batches: call 1, pause, call 2, ..., call nb
ExpectedTrace(nb) ==
    [i \in 1..(2 * nb - 1) |->
        IF i % 2 = 1
        THEN <<"call", (i + 1) \div 2, 0>>
        ELSE <<"pause", i \div 2, RATE_LIMIT_DELAY_MS>>]

Trace == [i \in 1..Len(log) |-> <<log[i].ev, log[i].batch, log[i].ms>>]

\* C26: what a finished run returns and the calls and pauses it made are
\* determined by the candidates and by the outcome of each batch, Success
\* with its text or Failure: the same for gemini and for gh, and for every
\* class of failure.
C26_BackendsEquivalent ==
    (Done /\ Selected /\ N > 0) =>
        /\ Len(history) = Ceil(N, BATCH_SIZE)
        /\ ret.value = ExpectedInsights(CandidatesOf(results), history)
        /\ Trace = ExpectedTrace(Len(history))

\* a gh run of two batches, the second refused for lack of access
C26_Witness ==
    /\ Done /\ provider = "GitHubModels"
    /\ Len(history) = 2
    /\ history[1].ok /\ ~history[2].ok
    /\ result.err = "no_access"
    /\ Pauses = 1

----------------------------------------------------------------------------
(* C27 *)

\* C27: rendering a prompt depends on the contents of the batch only and
\* changes nothing: when a call is started, every call made so far for a
\* batch of the same contents carried the same prompt as this one, and the
\* step leaves the input, the plan, the insights, the outcomes and the
\* detected backend as they were.
C27_PromptPure ==
    [][ Calls' > Calls =>
          /\ \A i \in 1..Len(log') :
                (log'[i].ev = "call" /\ batches[log'[i].batch] = batches[batch_idx])
                    => log'[i].prompt = batch_prompt'
          /\ UNCHANGED <<results, relevant, batches, batch_idx, insights,
                         history, result, notices, ret, provider,
                         GEMINI_COMMAND, probes>>
      ]_vars

\* two batches of equal contents were sent with equal prompts
C27_Witness ==
    /\ Calls = 2
    /\ batches[1] = batches[2]
    /\ log[1].prompt = log[3].prompt
    /\ log[3].prompt = batch_prompt

----------------------------------------------------------------------------
(* C28 *)

\* positions in port_calls of the calls of one command or port method
CallsOf(name) == {i \in 1..Len(port_calls) : port_calls[i].name = name}

ReportDone == report_pc = "done"

\* every port call made returned Ok and every JSON answer parsed
AllSucceeded ==
    /\ \A i \in 1..Len(port_calls) : port_calls[i].ok
    /\ report_ret.err # "json"

\* C28: a finished Full report with a PR number given, in which the
\* repository lookup, the diff fetch, the title and body lookup, both
\* generators and the post succeeded, returned Ok; it posted exactly one
\* comment, to the given PR of the owner and repository the lookup resolved,
\* and the post is the last call, after the one gemini call and the one
\* copilot call.
C28_FullReportPosted ==
    (ReportDone /\ report_cmd.kind = "Full" /\ report_cmd.pr.some /\ AllSucceeded) =>
        /\ report_ret.ok
        /\ Cardinality(CallsOf("post_comment")) = 1
        /\ Cardinality(CallsOf("gemini")) = 1
        /\ Cardinality(CallsOf("copilot")) = 1
        /\ port_calls[Len(port_calls)].name = "post_comment"
        /\ SubSeq(port_calls[Len(port_calls)].args, 1, 3)
              = <<owner, repo, report_cmd.pr.n>>
        /\ port_calls[2].name = "get_pr_diff"
        /\ port_calls[2].args = <<owner, repo, report_cmd.pr.n>>
        /\ \A g \in CallsOf("gemini") \cup CallsOf("copilot") : g < Len(port_calls)

\* report full --pr 123 in repository octo/hello, everything succeeding
C28_Witness ==
    /\ ReportDone /\ report_ret.ok
    /\ report_cmd.kind = "Full" /\ report_cmd.pr = Some(123)
    /\ AllSucceeded
    /\ owner = "octo" /\ repo = "hello"
    /\ Len(port_calls) = 6
    /\ Len(final_report) = 5

----------------------------------------------------------------------------
(* C29 *)

\* C29: the subcommand gates the generators: a Gemini report never runs the
\* copilot command, a Copilot report never runs the gemini command, no
\* report runs either command more than once, a copilot call of a Full
\* report comes after its gemini call, and a report that has come to the
\* post has run each generator its subcommand asks for.
C29_GeneratorsGated ==
    /\ report_cmd.kind = "Gemini" => CallsOf("copilot") = {}
    /\ report_cmd.kind = "Copilot" => CallsOf("gemini") = {}
    /\ Cardinality(CallsOf("gemini")) <= 1
    /\ Cardinality(CallsOf("copilot")) <= 1
    /\ report_cmd.kind = "Full" =>
          \A c \in CallsOf("copilot") : \E g \in CallsOf("gemini") : g < c
    /\ report_pc = "post_comment" =>
          /\ report_cmd.kind \in {"Full", "Gemini"} => CallsOf("gemini") # {}
          /\ report_cmd.kind \in {"Full", "Copilot"} => CallsOf("copilot") # {}

\* a Gemini report was posted: gemini was run, copilot was not
C29_Witness ==
    /\ ReportDone /\ report_ret.ok
    /\ report_cmd.kind = "Gemini"
    /\ Cardinality(CallsOf("gemini")) = 1
    /\ CallsOf("copilot") = {}
    /\ CallsOf("post_comment") # {}

----------------------------------------------------------------------------
(* C33 *)

\* the current PR was asked for and gh answered with its number
ResolvedCurrent == port_calls[1].ok /\ pr_number = CurrentPr

\* C33: with no PR number given the first call is gh pr view --json number;
\* unless it answers with a numeric number, the command has returned an
\* error and that call is the only one made: no diff was fetched, no
\* generator was run and no comment was posted.
C33_UnresolvedPrAborts ==
    (~report_cmd.pr.some /\ port_calls # <<>>) =>
        /\ port_calls[1].name = "gh"
        /\ port_calls[1].args = <<"pr", "view", "--json", "number">>
        /\ ~ResolvedCurrent =>
              /\ ReportDone
              /\ report_ret.returned /\ ~report_ret.ok
              /\ Len(port_calls) = 1
              /\ CallsOf("get_pr_diff") \cup CallsOf("gemini")
                    \cup CallsOf("copilot") \cup CallsOf("post_comment") = {}

\* gh pr view answered with JSON that has no numeric number
C33_Witness ==
    /\ ReportDone
    /\ ~report_cmd.pr.some
    /\ Len(port_calls) = 1 /\ port_calls[1].ok
    /\ report_ret.err = "could_not_parse"

----------------------------------------------------------------------------
(* C34 *)

\* the sections of a report body
Sections(report) == {report[i][1] : i \in 1..Len(report)}

\* the command was run and returned Ok
Succeeded(name) == \E i \in CallsOf(name) : port_calls[i].ok

\* C34: a failed generator only leaves its section out: whenever a comment
\* is posted it is posted once, as the last call, its body starts with the
\* header, ends with the footer and has the gemini section exactly when the
\* gemini command succeeded and the copilot section exactly when the copilot
\* command succeeded, and the result is Ok exactly when the post succeeded;
\* every report whose generators have been passed comes to the post; a
\* failed gh call, diff fetch or post is the last call and the result is an
\* error.
C34_GeneratorFailureNotFatal ==
    /\ \A i \in CallsOf("post_comment") :
          /\ i = Len(port_calls)
          /\ Cardinality(CallsOf("post_comment")) = 1
          /\ ReportDone /\ report_ret.returned
          /\ report_ret.ok <=> port_calls[i].ok
          /\ port_calls[i].args[4][1] = <<"header", pr_number>>
          /\ port_calls[i].args[4][Len(port_calls[i].args[4])] = <<"footer">>
          /\ "gemini" \in Sections(port_calls[i].args[4]) <=> Succeeded("gemini")
          /\ "copilot" \in Sections(port_calls[i].args[4]) <=> Succeeded("copilot")
    /\ (ReportDone /\ CallsOf("gemini") \cup CallsOf("copilot") # {}) =>
          CallsOf("post_comment") # {}
    /\ \A i \in 1..Len(port_calls) :
          (port_calls[i].name \in {"gh", "get_pr_diff", "post_comment"}
              /\ ~port_calls[i].ok) =>
                /\ i = Len(port_calls)
                /\ ReportDone
                /\ report_ret.returned /\ ~report_ret.ok

\* a Full report whose two generators failed was posted with header and
\* footer only and returned Ok
C34_Witness ==
    /\ ReportDone /\ report_ret.ok
    /\ report_cmd.kind = "Full"
    /\ CallsOf("gemini") # {} /\ ~Succeeded("gemini")
    /\ CallsOf("copilot") # {} /\ ~Succeeded("copilot")
    /\ final_report = <<<<"header", pr_number>>, <<"generated_by">>, <<"footer">>>>

----------------------------------------------------------------------------
(* C35 *)

\* C35: no Insight, accumulated or returned, has an empty or blank analysis
\* text, whichever backend produced it and whether or not its batch failed.
C35_AnalysisNeverBlank ==
    /\ \A i \in 1..Len(insights) : ~Blank(insights[i].analysis)
    /\ \A i \in 1..Len(ret.value) : ~Blank(ret.value[i].analysis)

\* gh answered with text that has a blank before and a line break after it:
\* the Insight carries it as it is
C35_Witness ==
    /\ Done /\ provider = "GitHubModels"
    /\ Len(ret.value) = 6
    /\ ret.value[1].analysis = <<" ">> \o OK_TEXT \o <<"\n">>
    /\ ret.value[6].analysis = PLACEHOLDER

----------------------------------------------------------------------------
(* C36 *)

\* C36: after k batches have been aggregated, k is at most ceil(N / BATCH_SIZE),
\* the insight list has min(k * BATCH_SIZE, N) elements and its i-th element
\* carries the name and version of the i-th candidate; while the k-th call
\* is being made the list has (k - 1) * BATCH_SIZE elements.
C36_LoopProgress ==
    /\ Len(history) <= Ceil(N, BATCH_SIZE)
    /\ Len(insights) = Min(Len(history) * BATCH_SIZE, N)
    /\ \A i \in 1..Len(insights) :
          /\ insights[i].dependency_name = CandidatesOf(results)[i].name
          /\ insights[i].version = CandidatesOf(results)[i].version
    /\ pc \in {"in_flight", "aggregate"} =>
          Len(insights) = (Calls - 1) * BATCH_SIZE

\* the call of the second batch of a run with seven candidates is being made
C36_Witness ==
    /\ pc = "in_flight"
    /\ N = 7 /\ Calls = 2
    /\ Len(insights) = 5
    /\ insights[5].dependency_name = CandidatesOf(results)[5].name

----------------------------------------------------------------------------
(* C37 *)

\* positions of the segments of one kind in a prompt
SegmentsOf(p, kind) == {j \in 1..Len(p) : p[j][1] = kind}

\* number of issues of the findings before the j-th of a batch
RECURSIVE IssuesBefore(_, _)
IssuesBefore(b, j) ==
    IF j <= 1 THEN 0 ELSE IssuesBefore(b, j - 1) + Len(b[j - 1].issues)

\* where the j-th finding of a batch stands in the prompt of the batch
LibraryAt(b, j) == 1 + j + IssuesBefore(b, j)

\* p lists the findings of b and nothing else
ListsExactly(p, b) ==
    /\ p[1] = <<PREAMBLE>>
    /\ Len(p) = LibraryAt(b, Len(b) + 1) - 1
    /\ SegmentsOf(p, "library") = {LibraryAt(b, j) : j \in 1..Len(b)}
    /\ \A j \in 1..Len(b) :
          /\ p[LibraryAt(b, j)] = <<"library", j, b[j].name, b[j].version>>
          /\ b[j].issues # <<>>
          /\ \A m \in 1..Len(b[j].issues) :
                p[LibraryAt(b, j) + m]
                    = <<"issue", b[j].issues[m].state, b[j].issues[m].title>>

\* C37: the prompt of the call of batch k consists of the preamble and, for
\* the findings of the k-th group of candidates in their order, a library
\* entry numbered from 1 within the batch, followed by all the issues of
\* that finding in order as state and title; it has no other entry, so no
\* finding of another batch and no finding without issues is in it.
C37_PromptListsBatch ==
    \A i \in Events("call") :
        /\ ListsExactly(log[i].prompt, CandidateBatch(log[i].batch))
        /\ \A j \in SegmentsOf(log[i].prompt, "library") :
              \E r \in 1..Len(results) :
                  /\ results[r].name = log[i].prompt[j][3]
                  /\ results[r].issues # <<>>
                  /\ Cardinality({q \in 1..r : results[q].issues # <<>>})
                        \in BatchPositions(log[i].batch)

\* the prompt of the second batch of an input that has findings without
\* issues: its first library entry is numbered 1 and has two issues
C37_Witness ==
    /\ pc = "in_flight" /\ Calls = 2
    /\ Len(results) > N
    /\ Len(log[3].prompt) >= 5
    /\ log[3].prompt[2][2] = 1
    /\ log[3].prompt[3][1] = "issue" /\ log[3].prompt[4][1] = "issue"
    /\ log[3].prompt[5][2] = 2

----------------------------------------------------------------------------
(* State machine: ci_detect::execute *)

\* "iberi22/Git-Core-Protocol"
MAIN_REPO ==
    <<"i", "b", "e", "r", "i", "2", "2", "/", "G", "i", "t", "-", "C", "o",
      "r", "e", "-", "P", "r", "o", "t", "o", "c", "o", "l">>

\* "acme/git-core-fork"
LOWER_FORK ==
    <<"a", "c", "m", "e", "/", "g", "i", "t", "-", "c", "o", "r", "e", "-",
      "f", "o", "r", "k">>

\* "acme/ai-git-core"
AI_REPO ==
    <<"a", "c", "m", "e", "/", "a", "i", "-", "g", "i", "t", "-", "c", "o",
      "r", "e">>

\* "acme/app"
OTHER_REPO ==
    <<"a", "c", "m", "e", "/", "a", "p", "p">>

\* "acme/Git-Core"
CAPITAL_REPO ==
    <<"a", "c", "m", "e", "/", "G", "i", "t", "-", "C", "o", "r", "e">>

\* args.repository
CiRepositories ==
    { NoneStr } \cup { SomeStr(n) : n \in {MAIN_REPO, LOWER_FORK, AI_REPO, OTHER_REPO, CAPITAL_REPO} }

\* one field of a JSON object: missing, or present with the JSON value v
Absent == [present |-> FALSE, v |-> ""]
Field(v) == [present |-> TRUE, v |-> v]

\* what `gh repo view <repo> --json isPrivate,visibility` can give
GhRepoViewResults ==
    { PortErr, PortOk([kind |-> "not_json", isPrivate |-> Absent, visibility |-> Absent]) }
    \cup { PortOk([kind |-> "object", isPrivate |-> p, visibility |-> v]) :
              p \in {Absent, Field("true"), Field("false"), Field("1")},
              v \in {Absent, Field("PUBLIC"), Field("PRIVATE")} }

\* GITHUB_OUTPUT set or not, whether its file opens, how many writeln! succeed
CiEnvs ==
    [GITHUB_OUTPUT : BOOLEAN, open : {"ok", "err"}, writes : 0..4]

\* serde_json::from_str::<RepoInfo>(&output), both fields #[serde(default)]
RepoInfoFromStr(doc) ==
    IF doc.kind /= "object" \/ (doc.isPrivate.present /\ doc.isPrivate.v \notin {"true", "false"})
    THEN [ok |-> FALSE, is_private |-> FALSE, visibility |-> ""]
    ELSE [ok |-> TRUE,
          is_private |-> IF doc.isPrivate.present THEN doc.isPrivate.v = "true" ELSE FALSE,
          visibility |-> IF doc.visibility.present THEN doc.visibility.v ELSE ""]

\* get_repo_visibility: Result<(bool, String)> from the answer of gh
get_repo_visibility(res) ==
    IF ~res.ok THEN [ok |-> FALSE, is_public |-> FALSE, visibility |-> ""]
    ELSE LET info == RepoInfoFromStr(res.out)
         IN  IF ~info.ok THEN [ok |-> FALSE, is_public |-> FALSE, visibility |-> ""]
             ELSE [ok |-> TRUE, is_public |-> ~info.is_private, visibility |-> info.visibility]

\* match get_repo_visibility(..) { Ok(v) => v, Err(e) => (false, "PRIVATE") }
VisibilityOrDefault(res) ==
    LET v == get_repo_visibility(res)
    IN  IF v.ok THEN [is_public |-> v.is_public, visibility |-> v.visibility]
        ELSE [is_public |-> FALSE, visibility |-> "PRIVATE"]

\* repo_name.contains("Git-Core-Protocol") || .contains("git-core") || .contains("ai-git-core")
IsMainRepo(name) ==
    \/ Contains(name, <<"G", "i", "t", "-", "C", "o", "r", "e", "-", "P", "r", "o", "t", "o", "c", "o", "l">>)
    \/ Contains(name, <<"g", "i", "t", "-", "c", "o", "r", "e">>)
    \/ Contains(name, <<"a", "i", "-", "g", "i", "t", "-", "c", "o", "r", "e">>)

ScheduleMainFirst(pub, main) ==
    IF main THEN [mode |-> "moderate", enable |-> TRUE]
    ELSE IF pub THEN [mode |-> "aggressive", enable |-> TRUE]
    ELSE [mode |-> "conservative", enable |-> FALSE]

\* let (schedule_mode, enable_schedules) = if is_public {..} else if is_main_repo {..} else {..}
Schedule(pub, main) ==
    IF pub THEN [mode |-> "aggressive", enable |-> TRUE]
    ELSE IF main THEN [mode |-> "moderate", enable |-> TRUE]
    ELSE [mode |-> "conservative", enable |-> FALSE]

\* format!("{}", b) of a bool
BoolToString(b) == IF b THEN "true" ELSE "false"

\* the four writeln! lines, in the order the code writes them
OutputLines ==
    << <<"is_public", BoolToString(is_public)>>,
       <<"is_main_repo", BoolToString(is_main_repo)>>,
       <<"enable_schedules", BoolToString(enable_schedules)>>,
       <<"schedule_mode", schedule_mode>> >>

\* return Err(..) by `?`
CiFail(e) ==
    /\ ci_ret' = [returned |-> TRUE, ok |-> FALSE, err |-> e]
    /\ ci_pc' = "done"

InitCi ==
    /\ ci_pc = "start"
    /\ ci_args \in [repository : CiRepositories]
    /\ ci_env \in CiEnvs
    /\ repo_name = <<>>
    /\ is_public = FALSE
    /\ visibility = ""
    /\ is_main_repo = FALSE
    /\ schedule_mode = ""
    /\ enable_schedules = FALSE
    /\ github_output = <<>>
    /\ ci_calls = <<>>
    /\ ci_ret = [returned |-> FALSE, ok |-> FALSE, err |-> "none"]
    /\ ReportNotStarted
    /\ pc = "detect"
    /\ results = <<>>
    /\ probe_idx = 1
    /\ probes = <<>>
    /\ probe_out = "none"
    /\ provider = "undetected"
    /\ GEMINI_COMMAND = "unset"
    /\ relevant = <<>>
    /\ batches = <<>>
    /\ batch_idx = 0
    /\ batch_prompt = <<>>
    /\ proc_out = NoOutput
    /\ result = NoResult
    /\ insights = <<>>
    /\ log = <<>>
    /\ history = <<>>
    /\ notices = <<>>
    /\ ret = NotReturned
    /\ env = AnyEnv
    /\ run = 1
    /\ prev = NoPrev
    /\ TelemetryNotStarted

\* args.repository.ok_or_else(..)? on None
CiNoRepository ==
    /\ ci_pc = "start"
    /\ ~ci_args.repository.some
    /\ CiFail("repository_required")
    /\ UNCHANGED <<ci_args, ci_env, repo_name, is_public, visibility, is_main_repo,
                   schedule_mode, enable_schedules, github_output, ci_calls>>
    /\ UNCHANGED <<analysisVars, reportVars, telemetryVars>>

\* let repo_name = args.repository.ok_or_else(..)? on Some
CiTakeRepository ==
    /\ ci_pc = "start"
    /\ ci_args.repository.some
    /\ repo_name' = ci_args.repository.s
    /\ ci_pc' = "visibility"
    /\ UNCHANGED <<ci_args, ci_env, is_public, visibility, is_main_repo,
                   schedule_mode, enable_schedules, github_output, ci_calls, ci_ret>>
    /\ UNCHANGED <<analysisVars, reportVars, telemetryVars>>

\* let (is_public, visibility) = match get_repo_visibility(&repo_name, system).await {..}
CiGetRepoVisibility ==
    /\ ci_pc = "visibility"
    /\ \E res \in GhRepoViewResults :
          /\ ci_calls' = Append(ci_calls,
                [name |-> "gh",
                 args |-> <<"repo", "view", repo_name, "--json", "isPrivate,visibility">>,
                 res |-> res])
          /\ is_public' = VisibilityOrDefault(res).is_public
          /\ visibility' = VisibilityOrDefault(res).visibility
    /\ ci_pc' = "main_repo"
    /\ UNCHANGED <<ci_args, ci_env, repo_name, is_main_repo,
                   schedule_mode, enable_schedules, github_output, ci_ret>>
    /\ UNCHANGED <<analysisVars, reportVars, telemetryVars>>

\* let is_main_repo = repo_name.contains(..) || ..
CiDetectMainRepo ==
    /\ ci_pc = "main_repo"
    /\ is_main_repo' = IsMainRepo(repo_name)
    /\ ci_pc' = "schedule"
    /\ UNCHANGED <<ci_args, ci_env, repo_name, is_public, visibility,
                   schedule_mode, enable_schedules, github_output, ci_calls, ci_ret>>
    /\ UNCHANGED <<analysisVars, reportVars, telemetryVars>>

\* let (schedule_mode, enable_schedules) = ..
CiDetermineSchedule ==
    /\ ci_pc = "schedule"
    /\ schedule_mode' = Schedule(is_public, is_main_repo).mode
    /\ enable_schedules' = Schedule(is_public, is_main_repo).enable
    /\ ci_pc' = "output"
    /\ UNCHANGED <<ci_args, ci_env, repo_name, is_public, visibility, is_main_repo,
                   github_output, ci_calls, ci_ret>>
    /\ UNCHANGED <<analysisVars, reportVars, telemetryVars>>

\* if let Ok(..) = env::var("GITHUB_OUTPUT") fails to match: nothing is written
CiSkipOutput ==
    /\ ci_pc = "output"
    /\ ~ci_env.GITHUB_OUTPUT
    /\ ci_pc' = "return"
    /\ UNCHANGED <<ci_args, ci_env, repo_name, is_public, visibility, is_main_repo,
                   schedule_mode, enable_schedules, github_output, ci_calls, ci_ret>>
    /\ UNCHANGED <<analysisVars, reportVars, telemetryVars>>

\* OpenOptions::new().append(true).create(true).open(..).map_err(CoreError::Io)? on Err
CiOpenFails ==
    /\ ci_pc = "output"
    /\ ci_env.GITHUB_OUTPUT
    /\ ci_env.open = "err"
    /\ CiFail("io")
    /\ UNCHANGED <<ci_args, ci_env, repo_name, is_public, visibility, is_main_repo,
                   schedule_mode, enable_schedules, github_output, ci_calls>>
    /\ UNCHANGED <<analysisVars, reportVars, telemetryVars>>

\* the four writeln!(file, ..).map_err(CoreError::Io)? lines: the first that fails returns
CiWriteOutput ==
    /\ ci_pc = "output"
    /\ ci_env.GITHUB_OUTPUT
    /\ ci_env.open = "ok"
    /\ github_output' = github_output \o SubSeq(OutputLines, 1, ci_env.writes)
    /\ IF ci_env.writes < 4
       THEN CiFail("io")
       ELSE ci_pc' = "return" /\ UNCHANGED ci_ret
    /\ UNCHANGED <<ci_args, ci_env, repo_name, is_public, visibility, is_main_repo,
                   schedule_mode, enable_schedules, ci_calls>>
    /\ UNCHANGED <<analysisVars, reportVars, telemetryVars>>

\* Ok(())
CiReturnOk ==
    /\ ci_pc = "return"
    /\ ci_ret' = [returned |-> TRUE, ok |-> TRUE, err |-> "none"]
    /\ ci_pc' = "done"
    /\ UNCHANGED <<ci_args, ci_env, repo_name, is_public, visibility, is_main_repo,
                   schedule_mode, enable_schedules, github_output, ci_calls>>
    /\ UNCHANGED <<analysisVars, reportVars, telemetryVars>>

NextCi ==
    \/ CiNoRepository
    \/ CiTakeRepository
    \/ CiGetRepoVisibility
    \/ CiDetectMainRepo
    \/ CiDetermineSchedule
    \/ CiSkipOutput
    \/ CiOpenFails
    \/ CiWriteOutput
    \/ CiReturnOk

SpecCi == InitCi /\ [][NextCi]_vars

----------------------------------------------------------------------------
(* ci_detect::execute: vocabulary of the properties *)

\* the schedule decision has been taken
ScheduleComputed ==
    \/ ci_pc \in {"output", "return"}
    \/ ci_pc = "done" /\ ci_args.repository.some

\* the visibility could not be detected: gh failed or its output did not parse
DetectionFailed ==
    /\ Len(ci_calls) = 1
    /\ ~get_repo_visibility(ci_calls[1].res).ok

CiDone == ci_pc = "done" /\ ci_ret.returned

----------------------------------------------------------------------------
(* C31 *)

\* C31: when the visibility cannot be detected (the gh call fails or its
\* output cannot be parsed) ci_detect does not fail because of it, takes
\* PRIVATE as the visibility, and the schedule mode that results is
\* conservative with schedules disabled, never aggressive.
C31_UndetectedIsConservative ==
    DetectionFailed =>
        /\ ~is_public /\ visibility = "PRIVATE"
        /\ CiDone => (ci_ret.ok \/ ci_ret.err = "io")
        /\ ScheduleComputed =>
              /\ schedule_mode = "conservative"
              /\ enable_schedules = FALSE
              /\ schedule_mode /= "aggressive"

----------------------------------------------------------------------------
(* C38 *)

\* C38: the schedule decision is the table on (is_public, is_main_repo):
\* public gives aggressive with schedules enabled whether or not the
\* repository is the main one, non-public main gives moderate with
\* schedules enabled, non-public non-main gives conservative with schedules
\* disabled; enable_schedules is false exactly when the mode is
\* conservative; the lines written to GITHUB_OUTPUT carry that decision; and
\* without a repository the command fails before it calls gh, decides or
\* writes anything.
C38_ScheduleDecision ==
    /\ ScheduleComputed =>
          /\ is_public => schedule_mode = "aggressive" /\ enable_schedules
          /\ (~is_public /\ is_main_repo) => schedule_mode = "moderate" /\ enable_schedules
          /\ (~is_public /\ ~is_main_repo) => schedule_mode = "conservative" /\ ~enable_schedules
          /\ (enable_schedules = FALSE) <=> (schedule_mode = "conservative")
          /\ is_main_repo <=> repo_name \in {MAIN_REPO, LOWER_FORK, AI_REPO}
    /\ \A i \in 1..Len(github_output) :
          /\ i = 3 => github_output[i] = <<"enable_schedules", BoolToString(schedule_mode /= "conservative")>>
          /\ i = 4 => github_output[i] = <<"schedule_mode", schedule_mode>>
    /\ ~ScheduleComputed => schedule_mode = "" /\ github_output = <<>>
    /\ ~ci_args.repository.some =>
          /\ ci_calls = <<>> /\ schedule_mode = "" /\ github_output = <<>>
          /\ ci_pc = "done" => (ci_ret.returned /\ ~ci_ret.ok /\ ci_ret.err = "repository_required")

\* a private main repository ends with moderate scheduling written out
C38_Witness ==
    /\ CiDone /\ ci_ret.ok
    /\ repo_name = MAIN_REPO
    /\ ~is_public /\ is_main_repo
    /\ schedule_mode = "moderate" /\ enable_schedules
    /\ Len(github_output) = 4

----------------------------------------------------------------------------
(* telemetry::execute: strings *)

\* the two characters of the texts that are not ASCII
SATELLITE == "SATELLITE_ANTENNA"
BAR_CHART == "BAR_CHART"

\* concatenation of the sequences ps[lo..hi], as format! and push_str do
RECURSIVE ConcatRange(_, _, _)
ConcatRange(ps, lo, hi) ==
    IF lo > hi THEN <<>>
    ELSE IF lo = hi THEN ps[lo]
    ELSE ConcatRange(ps, lo, (lo + hi) \div 2) \o ConcatRange(ps, (lo + hi) \div 2 + 1, hi)

Concat(ps) == ConcatRange(ps, 1, Len(ps))

\* str::split(&[..][..]): the pieces between the separators, empty ones included
Split(s, seps) ==
    LET idx == SelectSeq([i \in 1..Len(s) |-> i], LAMBDA i : s[i] \in seps)
        n == Len(idx)
        pos(k) == IF k = 0 THEN 0
                  ELSE IF k = n + 1 THEN Len(s) + 1
                  ELSE idx[k]
    IN  [k \in 1..(n + 1) |-> SubSeq(s, pos(k - 1) + 1, pos(k) - 1)]

\* str::lines(): split at "\n", no empty last line, a trailing "\r" of a line dropped
Lines(s) ==
    LET parts == Split(s, {"\n"})
        kept == IF parts[Len(parts)] = <<>> THEN SubSeq(parts, 1, Len(parts) - 1) ELSE parts
    IN  [k \in 1..Len(kept) |->
            IF kept[k] # <<>> /\ kept[k][Len(kept[k])] = "\r"
            THEN SubSeq(kept[k], 1, Len(kept[k]) - 1)
            ELSE kept[k]]

\* str::replace(c, r) for a character c: the pieces between the occurrences, joined by r
ReplaceChar(s, c, r) ==
    LET pieces == Split(s, {c})
    IN  Concat([k \in 1..Len(pieces) |-> (IF k > 1 THEN r ELSE <<>>) \o pieces[k]])

\* Display of bool
BoolChars(b) == IF b THEN <<"t", "r", "u", "e">> ELSE <<"f", "a", "l", "s", "e">>

\* an f64 that is a whole number of tenths, as serde_json prints it
F64ToString(tenths) ==
    U64ToString(tenths \div 10) \o <<".">> \o <<Digit(tenths % 10)>>

\* (x / y * 100.0 * 10.0).round(), the tenths of the percentage the code rounds to
PctTenths(x, y) == (2000 * x + y) \div (2 * y)

----------------------------------------------------------------------------
(* telemetry::execute: inputs *)

\* TelemetryArgs
TelemetryArgs ==
    [dry_run : BOOLEAN, internal : BOOLEAN,
     anonymous : {NoneBool, SomeBool(TRUE), SomeBool(FALSE)},
     include_patterns : BOOLEAN]

\* the repositories the command is run in: a clone of github.com/acme/app,
\* a clone of a bare repository given by a relative path, and one without remote
TelRepositories == {"acme/app", "app", "none"}

\* the states gh can be in during a run: it works, it cannot be started or
\* exits with an error, it prints text that is not JSON, it prints a JSON
\* value that is not an array
GhStates == {"ok", "down", "text", "object"}

\* the repository and the state of gh during the runs
TelEnvs == [repository : TelRepositories, gh : GhStates]

\* what `git config --get remote.origin.url` can give in each of them
RemoteUrlResults(repository) ==
    CASE repository = "acme/app" ->
            { PortOk(<<"h", "t", "t", "p", "s", ":", "/", "/", "g", "i", "t",
                       "h", "u", "b", ".", "c", "o", "m", "/", "a", "c", "m",
                       "e", "/", "a", "p", "p", ".", "g", "i", "t", "\n">>),
              PortOk(<<"g", "i", "t", "@", "g", "i", "t", "h", "u", "b", ".",
                       "c", "o", "m", ":", "a", "c", "m", "e", "/", "a", "p",
                       "p", ".", "g", "i", "t", "\n">>),
              PortOk(<<"h", "t", "t", "p", "s", ":", "/", "/", "g", "i", "t",
                       "h", "u", "b", ".", "c", "o", "m", "/", "a", "c", "m",
                       "e", "/", "a", "p", "p", "\n">>) }
      [] repository = "app" -> { PortOk(<<"a", "p", "p", ".", "g", "i", "t",
                                          "\n">>) }
      [] repository = "none" -> { PortErr, PortOk(<<"\n">>) }

\* chrono::Utc::now() of the successive runs, with its ISO week and ISO year
Clocks ==
    << [timestamp |-> <<"2", "0", "2", "6", "-", "1", "1", "-", "0", "4",
                        "T", "0", "9", ":", "1", "5", ":", "0", "0", ".",
                        "1", "2", "3", "4", "5", "6", "7", "8", "9", "+",
                        "0", "0", ":", "0", "0">>, week |-> 45, year |-> 2026],
       [timestamp |-> <<"2", "0", "2", "7", "-", "0", "1", "-", "0", "1",
                        "T", "0", "0", ":", "0", "0", ":", "0", "0", ".",
                        "0", "0", "0", "0", "0", "0", "0", "0", "1", "+",
                        "0", "0", ":", "0", "0">>, week |-> 53, year |-> 2026],
       [timestamp |-> <<"2", "0", "2", "7", "-", "0", "1", "-", "0", "4",
                        "T", "2", "3", ":", "5", "9", ":", "5", "9", ".",
                        "9", "9", "9", "9", "9", "9", "9", "9", "9", "+",
                        "0", "0", ":", "0", "0">>, week |-> 1, year |-> 2027] >>

ClockOf(r) == Clocks[((r - 1) % Len(Clocks)) + 1]

\* hex::encode(Sha256::digest(name)) for the names the inputs give
Sha256Hex(name) ==
    CASE name = <<"a", "c", "m", "e", "/", "a", "p", "p">> ->
            <<"5", "f", "8", "9", "d", "a", "0", "4", "3", "8", "f", "a",
              "1", "b", "1", "7", "6", "7", "5", "3", "2", "b", "5", "8",
              "b", "d", "3", "8", "c", "d", "a", "2", "3", "9", "6", "f",
              "3", "9", "8", "8", "9", "a", "b", "9", "e", "4", "9", "2",
              "e", "7", "f", "8", "f", "2", "0", "d", "2", "2", "f", "c",
              "9", "e", "9", "f">>
      [] name = <<"a", "p", "p">> ->
            <<"a", "1", "7", "2", "c", "e", "d", "c", "a", "e", "4", "7",
              "4", "7", "4", "b", "6", "1", "5", "c", "5", "4", "d", "5",
              "1", "0", "a", "5", "d", "8", "4", "a", "8", "d", "e", "a",
              "3", "0", "3", "2", "e", "9", "5", "8", "5", "8", "7", "4",
              "3", "0", "b", "4", "1", "3", "5", "3", "8", "b", "e", "3",
              "f", "3", "3", "3">>
      [] name = <<"u", "n", "k", "n", "o", "w", "n">> ->
            <<"b", "2", "3", "a", "6", "a", "8", "4", "3", "9", "c", "0",
              "d", "d", "e", "5", "5", "1", "5", "8", "9", "3", "e", "7",
              "c", "9", "0", "c", "1", "e", "3", "2", "3", "3", "b", "8",
              "6", "1", "6", "e", "6", "3", "4", "4", "7", "0", "f", "2",
              "0", "d", "c", "4", "9", "2", "8", "b", "c", "f", "3", "6",
              "0", "9", "b", "c">>

----------------------------------------------------------------------------
(* telemetry::execute: pure parts *)

\* let anonymous = args.anonymous.unwrap_or(!args.internal)
DefaultAnonymous(a) == IF a.anonymous.some THEN a.anonymous.b ELSE ~a.internal

\* let repo_name = if repo_name_raw.is_empty() { "unknown" } else { .. }
RepoName(url_out) ==
    LET raw == Trim(url_out)
        parts == Split(raw, {"/", ":"})
        last == TrimEndMatches(parts[Len(parts)], <<".", "g", "i", "t">>)
    IN  IF raw = <<>> THEN <<"u", "n", "k", "n", "o", "w", "n">>
        ELSE IF Len(parts) >= 2 THEN parts[Len(parts) - 1] \o <<"/">> \o last
        ELSE last

ProjectIdRaw(anon, name) == name

\* let project_id = if anonymous { format!("anon-{}", &hash_str[0..8]) } else { repo_name }
ProjectId(anon, name) ==
    IF anon THEN <<"a", "n", "o", "n", "-">> \o SubSeq(Sha256Hex(name), 1, 8) ELSE name

\* Metrics { .. } of lines 110-123
InitialMetrics(a, anon, pid, clock) ==
    [schema_version |-> <<"2", ".", "1">>,
     submission_method |-> IF a.internal THEN <<"i", "s", "s", "u", "e">> ELSE <<"d", "i", "s", "c", "u",
                                                             "s", "s", "i", "o", "n">>,
     project_id |-> pid,
     anonymous |-> anon,
     timestamp |-> clock.timestamp,
     week |-> clock.week,
     year |-> clock.year,
     protocol_version |-> <<"2", ".", "1">>,
     order1 |-> DefaultOrder1,
     order2 |-> DefaultOrder2,
     order3 |-> DefaultOrder3,
     patterns |-> NonePatterns]

\* one call on SystemPort: the method, the program, its arguments, and whether it gave Ok
TelCall(method, name, args, res) ==
    [method |-> method, name |-> name, args |-> args, ok |-> res.ok]

\* what a `gh .. list .. --json number` call gives in each of them: an error,
\* text that is not JSON, an array of len elements, a JSON object
GhListResult(gh) ==
    CASE gh = "down" -> PortErr
      [] gh = "text" -> PortOk([kind |-> "not_json", len |-> 0])
      [] gh = "ok" -> PortOk([kind |-> "array", len |-> 6])
      [] gh = "object" -> PortOk([kind |-> "object", len |-> 0])

\* get_gh_count: Result<usize> from the answer of gh
get_gh_count(res) ==
    IF ~res.ok \/ res.out.kind = "not_json" THEN [ok |-> FALSE, n |-> 0]
    ELSE IF res.out.kind = "array" THEN [ok |-> TRUE, n |-> res.out.len]
    ELSE [ok |-> TRUE, n |-> 0]

\* the argument lists of the four calls of collect_order1
Order1Args ==
    << << <<"i", "s", "s", "u", "e">>, <<"l", "i", "s", "t">>, <<"-", "-", "s", "t", "a", "t", "e">>, <<"o", "p", "e", "n">>, <<"-", "-", "j", "s", "o", "n">>, <<"n", "u", "m", "b", "e",
                                                          "r">> >>,
       << <<"i", "s", "s", "u", "e">>, <<"l", "i", "s", "t">>, <<"-", "-", "s", "t", "a", "t", "e">>, <<"c", "l", "o", "s", "e", "d">>, <<"-", "-", "l", "i", "m",
                                                  "i", "t">>, <<"1", "0", "0">>, <<"-", "-", "j", "s", "o",
                                                                    "n">>, <<"n", "u", "m", "b", "e",
                                                                              "r">> >>,
       << <<"p", "r">>, <<"l", "i", "s", "t">>, <<"-", "-", "s", "t", "a", "t", "e">>, <<"o", "p", "e", "n">>, <<"-", "-", "j", "s", "o", "n">>, <<"n", "u", "m", "b", "e",
                                                       "r">> >>,
       << <<"p", "r">>, <<"l", "i", "s", "t">>, <<"-", "-", "s", "t", "a", "t", "e">>, <<"m", "e", "r", "g", "e", "d">>, <<"-", "-", "l", "i", "m", "i",
                                               "t">>, <<"1", "0", "0">>, <<"-", "-", "j", "s", "o",
                                                                 "n">>, <<"n", "u", "m", "b", "e",
                                                                           "r">> >> >>

\* collect_order1 when its k-th call of gh is answered by rs[k]: each count is
\* followed by `?`, so the calls stop at the first that fails
collect_order1(rs) ==
    LET failed == {k \in 1..4 : ~get_gh_count(rs[k]).ok}
        made == IF failed = {} THEN 4 ELSE CHOOSE k \in failed : \A j \in failed : k <= j
    IN  [ok |-> failed = {},
         m |-> IF failed = {}
               THEN [issues_open |-> get_gh_count(rs[1]).n,
                     issues_closed_total |-> get_gh_count(rs[2]).n,
                     prs_open |-> get_gh_count(rs[3]).n,
                     prs_merged_total |-> get_gh_count(rs[4]).n]
               ELSE DefaultOrder1,
         calls |-> [k \in 1..made |->
                      TelCall("run_command_output", "gh", Order1Args[k], rs[k])]]

\* what `gh issue list --limit 10 --json number` gives: per issue its number, if it has one
IssueListResult(gh) ==
    CASE gh = "down" -> PortErr
      [] gh = "text" -> PortOk([kind |-> "not_json", items |-> <<>>])
      [] gh = "ok" -> PortOk([kind |-> "array", items |-> <<Some(7), None>>])
      [] gh = "object" -> PortOk([kind |-> "object", items |-> <<>>])

\* one field of a JSON object whose value is a string
NoBody == [present |-> FALSE, v |-> <<>>]
Body(v) == [present |-> TRUE, v |-> v]

\* what `gh issue view <n> --json body` can give
IssueViewResults ==
    { PortErr,
      PortOk([kind |-> "not_json", body |-> NoBody]),
      PortOk([kind |-> "object", body |-> Body(<<"P", "l", "a", "n", "\n",
                                                 "<", "a", "g", "e", "n",
                                                 "t", "-", "s", "t", "a",
                                                 "t", "e", ">", "s", "t",
                                                 "e", "p", " ", "2", "<",
                                                 "/", "a", "g", "e", "n",
                                                 "t", "-", "s", "t", "a",
                                                 "t", "e", ">">>)]),
      PortOk([kind |-> "object", body |-> Body(<<"F", "i", "x", " ", "t",
                                                 "h", "e", " ", "t", "y",
                                                 "p", "o">>)]) }

\* what `git log --oneline -50` can give
GitLogResults ==
    { PortErr,
      PortOk(<<>>),
      PortOk(<<"a", "1", "b", "2", "c", "3", "d", " ", "f", "e", "a", "t",
               "(", "c", "l", "i", ")", ":", " ", "a", "d", "d", " ", "t",
               "e", "l", "e", "m", "e", "t", "r", "y", "\n", "0", "f", "9",
               "e", "8", "d", "7", " ", "f", "i", "x", " ", "t", "y", "p",
               "o", "\n", "c", "0", "f", "f", "e", "e", "1", " ", "M", "e",
               "r", "g", "e", " ", "b", "r", "a", "n", "c", "h", " ", "'",
               "m", "a", "i", "n", "'", "\n">>) }

\* serde_json::from_str(&output).unwrap_or_default() as Vec<Value>
IssuesOf(res) == IF res.ok /\ res.out.kind = "array" THEN res.out.items ELSE <<>>

\* body_obj["body"].as_str() is Some(body) and body.contains("<agent-state>")
HasAgentState(res) ==
    /\ res.out.kind = "object"
    /\ res.out.body.present
    /\ Contains(res.out.body.v, <<"<", "a", "g", "e", "n", "t", "-", "s",
                                  "t", "a", "t", "e", ">">>)

HexDigits ==
    {"0", "1", "2", "3", "4", "5", "6", "7", "8", "9", "a", "b", "c", "d", "e", "f"}

CommitTypes == { <<"f", "e", "a", "t">>, <<"f", "i", "x">>, <<"d", "o", "c", "s">>, <<"s", "t", "y", "l", "e">>, <<"r", "e", "f", "a", "c",
                                                   "t", "o", "r">>, <<"t", "e", "s", "t">>, <<"c", "h", "o", "r", "e">> }

\* atomic_regex.is_match(l) for ^[a-f0-9]+ (feat|fix|docs|style|refactor|test|chore)\(
IsAtomic(l) ==
    LET h == Cardinality({i \in 1..Len(l) : \A j \in 1..i : l[j] \in HexDigits})
        rest == SubSeq(l, h + 1, Len(l))
    IN  /\ h >= 1
        /\ \E t \in CommitTypes : StartsWith(rest, <<" ">> \o t \o <<"(">>)

\* collect_order2 when gh answers the list by lr and the k-th view by vr[k],
\* and git answers the log by gr; every call is followed by `?`
collect_order2(lr, vr, gr) ==
    LET issues == IssuesOf(lr)
        nums == SelectSeq(issues, LAMBDA i : i.some)
        failed == {k \in 1..Len(nums) : ~vr[k].ok}
        views == IF failed = {} THEN Len(nums)
                 ELSE CHOOSE k \in failed : \A j \in failed : k <= j
        agent_state_count == Cardinality({k \in 1..Len(nums) : HasAgentState(vr[k])})
        lines == Lines(gr.out)
        atomic_commits == Cardinality({k \in 1..Len(lines) : IsAtomic(lines[k])})
        list_call == TelCall("run_command_output", "gh",
                        << <<"i", "s", "s", "u", "e">>, <<"l", "i", "s", "t">>, <<"-", "-", "l", "i", "m", "i",
                                              "t">>, <<"1", "0">>, <<"-", "-", "j", "s", "o",
                                                               "n">>, <<"n", "u", "m", "b", "e",
                                                                         "r">> >>, lr)
        view_calls == [k \in 1..views |->
                        TelCall("run_command_output", "gh",
                           << <<"i", "s", "s", "u", "e">>, <<"v", "i", "e", "w">>, U64ToString(nums[k].n), <<"-", "-", "j", "s", "o",
                                                                         "n">>, <<"b", "o", "d", "y">> >>, vr[k])]
        log_call == TelCall("run_command_output", "git", << <<"l", "o", "g">>, <<"-", "-", "o", "n", "e",
                                                                     "l", "i", "n", "e">>, <<"-", "5", "0">> >>, gr)
    IN  IF ~lr.ok
        THEN [ok |-> FALSE, m |-> DefaultOrder2, calls |-> <<list_call>>]
        ELSE IF failed # {}
        THEN [ok |-> FALSE, m |-> DefaultOrder2, calls |-> <<list_call>> \o view_calls]
        ELSE IF ~gr.ok
        THEN [ok |-> FALSE, m |-> DefaultOrder2,
              calls |-> <<list_call>> \o view_calls \o <<log_call>>]
        ELSE [ok |-> TRUE,
              m |-> [agent_state_usage_pct |->
                        IF issues # <<>> THEN PctTenths(agent_state_count, Len(issues)) ELSE 0,
                     atomic_commit_ratio |->
                        IF lines # <<>> THEN PctTenths(atomic_commits, Len(lines)) ELSE 0,
                     sample_size |-> Len(issues)],
              calls |-> <<list_call>> \o view_calls \o <<log_call>>]

\* json.as_array().map(|a| a.len()).unwrap_or(0) after unwrap_or(Array(vec![]))
LabelCount(res) == IF res.out.kind = "array" THEN res.out.len ELSE 0

\* collect_order3 when gh answers the friction list by fr and the evolution list by er
collect_order3(fr, er) ==
    LET friction_call == TelCall("run_command_output", "gh",
                            << <<"i", "s", "s", "u", "e">>, <<"l", "i", "s", "t">>, <<"-", "-", "l", "a", "b",
                                                  "e", "l">>, <<"f", "r", "i", "c", "t",
                                                             "i", "o", "n">>, <<"-", "-", "s", "t", "a",
                                                                         "t", "e">>, <<"a", "l", "l">>,
                               <<"-", "-", "j", "s", "o", "n">>, <<"n", "u", "m", "b", "e", "r">> >>, fr)
        evolution_call == TelCall("run_command_output", "gh",
                            << <<"i", "s", "s", "u", "e">>, <<"l", "i", "s", "t">>, <<"-", "-", "l", "a", "b",
                                                  "e", "l">>, <<"e", "v", "o", "l", "u",
                                                             "t", "i", "o", "n">>, <<"-", "-", "s", "t", "a",
                                                                          "t", "e">>, <<"a", "l", "l">>,
                               <<"-", "-", "j", "s", "o", "n">>, <<"n", "u", "m", "b", "e", "r">> >>, er)
    IN  IF ~fr.ok
        THEN [ok |-> FALSE, m |-> DefaultOrder3, calls |-> <<friction_call>>]
        ELSE IF ~er.ok
        THEN [ok |-> FALSE, m |-> DefaultOrder3, calls |-> <<friction_call, evolution_call>>]
        ELSE [ok |-> TRUE,
              m |-> [friction_reports |-> LabelCount(fr), evolution_proposals |-> LabelCount(er)],
              calls |-> <<friction_call, evolution_call>>]

\* the Vec pushed by lines 150-159
PatternsOf(m) ==
    (IF m.order2.agent_state_usage_pct < 500 THEN << <<"l", "o", "w", "_", "a",
                                                       "g", "e", "n", "t", "_",
                                                       "s", "t", "a", "t", "e",
                                                       "_", "a", "d", "o", "p",
                                                       "t", "i", "o", "n">> >> ELSE <<>>)
    \o (IF m.order2.atomic_commit_ratio < 700 THEN << <<"l", "o", "w", "_", "a",
                                                        "t", "o", "m", "i", "c",
                                                        "_", "c", "o", "m", "m",
                                                        "i", "t", "_", "r", "a",
                                                        "t", "i", "o">> >> ELSE <<>>)
    \o (IF m.order3.friction_reports > 5 THEN << <<"h", "i", "g", "h", "_",
                                                   "f", "r", "i", "c", "t",
                                                   "i", "o", "n">> >> ELSE <<>>)

\* a string as serde_json writes it
JsonString(s) ==
    <<"\"">>
    \o Concat([i \in 1..Len(s) |->
                 CASE s[i] = "\"" -> <<"\\", "\"">>
                   [] s[i] = "\\" -> <<"\\", "\\">>
                   [] s[i] = "\n" -> <<"\\", "n">>
                   [] OTHER -> <<s[i]>>])
    \o <<"\"">>

\* a Vec<String> as to_string_pretty writes it, two levels deep
PrettyStrings(v) ==
    IF v = <<>> THEN <<"[", "]">>
    ELSE <<"[", "\n">>
         \o Concat([k \in 1..Len(v) |->
                      (IF k > 1 THEN <<",", "\n">> ELSE <<>>) \o <<" ", " ", " ", " ">> \o JsonString(v[k])])
         \o <<"\n", " ", " ", "]">>

\* serde_json::to_string_pretty(&metrics); patterns is skipped when it is None
to_string_pretty(m) ==
    Concat(<<
      <<"{", "\n", " ", " ", "\"", "s", "c", "h", "e", "m", "a", "_", "v",
        "e", "r", "s", "i", "o", "n", "\"", ":", " ">>, JsonString(m.schema_version),
      <<",", "\n", " ", " ", "\"", "s", "u", "b", "m", "i", "s", "s", "i",
        "o", "n", "_", "m", "e", "t", "h", "o", "d", "\"", ":", " ">>, JsonString(m.submission_method),
      <<",", "\n", " ", " ", "\"", "p", "r", "o", "j", "e", "c", "t", "_",
        "i", "d", "\"", ":", " ">>, JsonString(m.project_id),
      <<",", "\n", " ", " ", "\"", "a", "n", "o", "n", "y", "m", "o", "u",
        "s", "\"", ":", " ">>, BoolChars(m.anonymous),
      <<",", "\n", " ", " ", "\"", "t", "i", "m", "e", "s", "t", "a", "m",
        "p", "\"", ":", " ">>, JsonString(m.timestamp),
      <<",", "\n", " ", " ", "\"", "w", "e", "e", "k", "\"", ":", " ">>, U64ToString(m.week),
      <<",", "\n", " ", " ", "\"", "y", "e", "a", "r", "\"", ":", " ">>, U64ToString(m.year),
      <<",", "\n", " ", " ", "\"", "p", "r", "o", "t", "o", "c", "o", "l",
        "_", "v", "e", "r", "s", "i", "o", "n", "\"", ":", " ">>, JsonString(m.protocol_version),
      <<",", "\n", " ", " ", "\"", "o", "r", "d", "e", "r", "1", "\"", ":",
        " ", "{", "\n", " ", " ", " ", " ", "\"", "i", "s", "s", "u", "e",
        "s", "_", "o", "p", "e", "n", "\"", ":", " ">>, U64ToString(m.order1.issues_open),
      <<",", "\n", " ", " ", " ", " ", "\"", "i", "s", "s", "u", "e", "s",
        "_", "c", "l", "o", "s", "e", "d", "_", "t", "o", "t", "a", "l",
        "\"", ":", " ">>, U64ToString(m.order1.issues_closed_total),
      <<",", "\n", " ", " ", " ", " ", "\"", "p", "r", "s", "_", "o", "p",
        "e", "n", "\"", ":", " ">>, U64ToString(m.order1.prs_open),
      <<",", "\n", " ", " ", " ", " ", "\"", "p", "r", "s", "_", "m", "e",
        "r", "g", "e", "d", "_", "t", "o", "t", "a", "l", "\"", ":", " ">>, U64ToString(m.order1.prs_merged_total),
      <<"\n", " ", " ", "}", ",", "\n", " ", " ", "\"", "o", "r", "d", "e",
        "r", "2", "\"", ":", " ", "{", "\n", " ", " ", " ", " ", "\"", "a",
        "g", "e", "n", "t", "_", "s", "t", "a", "t", "e", "_", "u", "s", "a",
        "g", "e", "_", "p", "c", "t", "\"", ":", " ">>,
      F64ToString(m.order2.agent_state_usage_pct),
      <<",", "\n", " ", " ", " ", " ", "\"", "a", "t", "o", "m", "i", "c",
        "_", "c", "o", "m", "m", "i", "t", "_", "r", "a", "t", "i", "o",
        "\"", ":", " ">>, F64ToString(m.order2.atomic_commit_ratio),
      <<",", "\n", " ", " ", " ", " ", "\"", "s", "a", "m", "p", "l", "e",
        "_", "s", "i", "z", "e", "\"", ":", " ">>, U64ToString(m.order2.sample_size),
      <<"\n", " ", " ", "}", ",", "\n", " ", " ", "\"", "o", "r", "d", "e",
        "r", "3", "\"", ":", " ", "{", "\n", " ", " ", " ", " ", "\"", "f",
        "r", "i", "c", "t", "i", "o", "n", "_", "r", "e", "p", "o", "r", "t",
        "s", "\"", ":", " ">>, U64ToString(m.order3.friction_reports),
      <<",", "\n", " ", " ", " ", " ", "\"", "e", "v", "o", "l", "u", "t",
        "i", "o", "n", "_", "p", "r", "o", "p", "o", "s", "a", "l", "s",
        "\"", ":", " ">>, U64ToString(m.order3.evolution_proposals),
      <<"\n", " ", " ", "}">>,
      IF m.patterns.some THEN <<",", "\n", " ", " ", "\"", "p", "a", "t",
                                "t", "e", "r", "n", "s", "\"", ":", " ">> \o PrettyStrings(m.patterns.v) ELSE <<>>,
      <<"\n", "}">> >>)

\* let submission_title = if args.internal { format!(..) } else { format!(..) }
SubmissionTitle(a, pid, week, year) ==
    IF a.internal
    THEN Concat(<< <<"[", "T", "e", "l", "e", "m", "e", "t", "r", "y", "-",
                     "I", "n", "t", "e", "r", "n", "a", "l", "]", " ">>, pid, <<" ", "-", " ", "W", "e",
                                                   "e", "k", " ">>, U64ToString(week),
                   <<" ", "(">>, U64ToString(year), <<")">> >>)
    ELSE Concat(<< <<BAR_CHART>>, <<" ">>, pid, <<" ", "-", " ", "W", "e", "e",
                                              "k", " ">>, U64ToString(week),
                   <<" ", "(">>, U64ToString(year), <<")">> >>)

OFFICIAL_REPO_OWNER == <<"i", "b", "e", "r", "i", "2", "2">>
OFFICIAL_REPO_NAME == <<"G", "i", "t", "-", "C", "o", "r", "e", "-", "P",
                        "r", "o", "t", "o", "c", "o", "l">>
INTERNAL_LABEL == <<"t", "e", "l", "e", "m", "e", "t", "r", "y", "-", "i",
                    "n", "t", "e", "r", "n", "a", "l">>

\* the body of the issue submit_internal creates
InternalBody(m) ==
    Concat(<< <<"#", "#", " ">>, <<SATELLITE>>, <<" ", "I", "n", "t", "e", "r", "n", "a",
                                      "l", " ", "T", "e", "l", "e", "m", "e",
                                      "t", "r", "y", " ", "S", "u", "b", "m",
                                      "i", "s", "s", "i", "o", "n", "\n",
                                      "\n", "*", "*", "P", "r", "o", "j",
                                      "e", "c", "t", ":", "*", "*", " ", BQ>>,
              m.project_id,
              <<BQ, "\n", "*", "*", "W", "e", "e", "k", ":", "*", "*", " ">>, U64ToString(m.week), <<" ", "(">>, U64ToString(m.year),
              <<")", "\n", "*", "*", "P", "r", "o", "t", "o", "c", "o", "l",
                " ", "V", "e", "r", "s", "i", "o", "n", ":", "*", "*", " ">>, m.protocol_version,
              <<"\n", "*", "*", "M", "o", "d", "e", ":", "*", "*", " ", "I",
                "n", "t", "e", "r", "n", "a", "l", " ", "(", "d", "o", "g",
                "f", "o", "o", "d", "i", "n", "g", ")", "\n", "\n", "#", "#",
                "#", " ", "M", "e", "t", "r", "i", "c", "s", "\n", "\n", BQ,
                BQ, BQ, "j", "s", "o", "n", "\n">>,
              to_string_pretty(m),
              <<"\n", BQ, BQ, BQ, "\n", "\n", "-", "-", "-", "\n", "*", "A",
                "u", "t", "o", "-", "g", "e", "n", "e", "r", "a", "t", "e",
                "d", " ", "b", "y", " ", "G", "i", "t", "-", "C", "o", "r",
                "e", " ", "P", "r", "o", "t", "o", "c", "o", "l", " ", "T",
                "e", "l", "e", "m", "e", "t", "r", "y", " ", "S", "y", "s",
                "t", "e", "m", " ", "v", "2", ".", "1", " ", "(", "R", "u",
                "s", "t", ")", "*">> >>)

\* what system.run_command can give
RunCommandResults == { PortErr, PortOk(<<>>) }

\* submit_internal when gh answers by res
submit_internal(t, m, res) ==
    [ok |-> res.ok,
     err |-> IF res.ok THEN "none" ELSE "run_command",
     calls |-> << TelCall("run_command", "gh",
                    << <<"i", "s", "s", "u", "e">>, <<"c", "r", "e", "a", "t", "e">>,
                       <<"-", "-", "r", "e", "p", "o">>, Concat(<<OFFICIAL_REPO_OWNER, <<"/">>, OFFICIAL_REPO_NAME>>),
                       <<"-", "-", "t", "i", "t", "l", "e">>, t,
                       <<"-", "-", "b", "o", "d", "y">>, InternalBody(m),
                       <<"-", "-", "l", "a", "b", "e", "l">>, INTERNAL_LABEL >>, res) >>]

\* the query of submit_public
CategoriesQuery ==
    Concat(<< <<"q", "u", "e", "r", "y", " ", "{", "\n", " ", " ", "r", "e",
                "p", "o", "s", "i", "t", "o", "r", "y", "(", "o", "w", "n",
                "e", "r", ":", " ", "\"">>, OFFICIAL_REPO_OWNER, <<"\"", ",", " ", "n", "a",
                                                                      "m", "e", ":", " ", "\"">>,
              OFFICIAL_REPO_NAME,
              <<"\"", ")", " ", "{", "\n", " ", " ", " ", " ", "i", "d",
                "\n", " ", " ", " ", " ", "d", "i", "s", "c", "u", "s", "s",
                "i", "o", "n", "C", "a", "t", "e", "g", "o", "r", "i", "e",
                "s", "(", "f", "i", "r", "s", "t", ":", " ", "2", "0", ")",
                " ", "{", "\n", " ", " ", " ", " ", " ", " ", "n", "o", "d",
                "e", "s", " ", "{", "\n", " ", " ", " ", " ", " ", " ", " ",
                " ", "i", "d", "\n", " ", " ", " ", " ", " ", " ", " ", " ",
                "n", "a", "m", "e", "\n", " ", " ", " ", " ", " ", " ", " ",
                " ", "s", "l", "u", "g", "\n", " ", " ", " ", " ", " ", " ",
                "}", "\n", " ", " ", " ", " ", "}", "\n", " ", " ", "}",
                "\n", "}">> >>)

\* one element of discussionCategories.nodes
Category(id, name, slug) == [id |-> id, name |-> name, slug |-> slug]

GeneralCategory == Category(Body(<<"D", "I", "C", "_", "g", "e", "n", "e",
                                   "r", "a", "l">>), <<"G", "e", "n", "e", "r",
                                                   "a", "l">>, <<"g", "e", "n", "e", "r",
                                                              "a", "l">>)
TelemetryCategory == Category(Body(<<"D", "I", "C", "_", "t", "e", "l", "e",
                                     "m", "e", "t", "r", "y">>), <<"T", "e", "l", "e", "m",
                                                       "e", "t", "r", "y", " ",
                                                       "R", "e", "p", "o", "r",
                                                       "t", "s">>, <<"r", "e", "p", "o", "r",
                                                                            "t", "s">>)
IdeasCategory == Category(Body(<<"D", "I", "C", "_", "i", "d", "e", "a", "s">>), <<"I", "d", "e", "a", "s">>, <<"i", "d", "e", "a", "s">>)

NoNodes == [present |-> FALSE, v |-> <<>>]
Nodes(v) == [present |-> TRUE, v |-> v]

\* what the query can give
QueryResults ==
    { PortErr,
      PortOk([kind |-> "not_json", id |-> NoBody, nodes |-> NoNodes]),
      PortOk([kind |-> "object", id |-> NoBody, nodes |-> Nodes(<<GeneralCategory>>)]),
      PortOk([kind |-> "object", id |-> Body(<<"R", "_", "1">>), nodes |-> NoNodes]),
      PortOk([kind |-> "object", id |-> Body(<<"R", "_", "1">>),
              nodes |-> Nodes(<<GeneralCategory, TelemetryCategory>>)]),
      PortOk([kind |-> "object", id |-> Body(<<"R", "_", "1">>), nodes |-> Nodes(<<GeneralCategory>>)]),
      PortOk([kind |-> "object", id |-> Body(<<"R", "_", "1">>), nodes |-> Nodes(<<IdeasCategory>>)]) }

\* what the mutation can give: the url of the discussion is there or not
MutationResults ==
    { PortErr,
      PortOk([kind |-> "not_json", url |-> NoBody]),
      PortOk([kind |-> "object", url |-> NoBody]),
      PortOk([kind |-> "object", url |-> Body(<<"h", "t", "t", "p", "s", ":",
                                                "/", "/", "g", "i", "t", "h",
                                                "u", "b", ".", "c", "o", "m",
                                                "/", "i", "b", "e", "r", "i",
                                                "2", "2", "/", "G", "i", "t",
                                                "-", "C", "o", "r", "e", "-",
                                                "P", "r", "o", "t", "o", "c",
                                                "o", "l", "/", "d", "i", "s",
                                                "c", "u", "s", "s", "i", "o",
                                                "n", "s", "/", "1">>)]) }

\* the two loops of lines 354-372: the first category about telemetry, else the
\* first whose slug is general; the id of the one found, which may be missing
CategoryId(cats) ==
    LET tel == {k \in 1..Len(cats) :
                   Contains(cats[k].name, <<"T", "e", "l", "e", "m", "e",
                                            "t", "r", "y">>) \/ Contains(cats[k].slug, <<"t", "e", "l", "e", "m",
                                                                                   "e", "t", "r", "y">>)}
        gen == {k \in 1..Len(cats) : cats[k].slug = <<"g", "e", "n", "e", "r",
                                                      "a", "l">>}
        first(S) == CHOOSE k \in S : \A j \in S : k <= j
        by_tel == IF tel = {} THEN NoBody ELSE cats[first(tel)].id
    IN  IF by_tel.present THEN by_tel
        ELSE IF gen = {} THEN NoBody
        ELSE cats[first(gen)].id

\* the body of the discussion submit_public creates
PublicBody(m) ==
    Concat(<< <<"#", "#", " ">>, <<SATELLITE>>, <<" ", "T", "e", "l", "e", "m", "e", "t",
                                      "r", "y", " ", "S", "u", "b", "m", "i",
                                      "s", "s", "i", "o", "n", "\n", "\n",
                                      "*", "*", "P", "r", "o", "j", "e", "c",
                                      "t", " ", "I", "D", ":", "*", "*", " ",
                                      BQ>>,
              m.project_id,
              <<BQ, "\n", "*", "*", "W", "e", "e", "k", ":", "*", "*", " ">>, U64ToString(m.week), <<" ", "(">>, U64ToString(m.year),
              <<")", "\n", "*", "*", "P", "r", "o", "t", "o", "c", "o", "l",
                " ", "V", "e", "r", "s", "i", "o", "n", ":", "*", "*", " ">>, m.protocol_version,
              <<"\n", "\n", "#", "#", "#", " ", "M", "e", "t", "r", "i", "c",
                "s", "\n", "\n", BQ, BQ, BQ, "j", "s", "o", "n", "\n">>,
              to_string_pretty(m),
              <<"\n", BQ, BQ, BQ, "\n", "\n", "-", "-", "-", "\n", "*", "A",
                "u", "t", "o", "-", "g", "e", "n", "e", "r", "a", "t", "e",
                "d", " ", "b", "y", " ", "G", "i", "t", "-", "C", "o", "r",
                "e", " ", "P", "r", "o", "t", "o", "c", "o", "l", " ", "T",
                "e", "l", "e", "m", "e", "t", "r", "y", " ", "S", "y", "s",
                "t", "e", "m", " ", "v", "2", ".", "1", " ", "(", "R", "u",
                "s", "t", ")", "*">> >>)

\* body.replace('\\', "\\\\").replace('"', "\\\"").replace('\n', "\\n")
EscapedBody(b) ==
    ReplaceChar(ReplaceChar(ReplaceChar(b, "\\", <<"\\", "\\">>), "\"", <<"\\", "\"">>),
                "\n", <<"\\", "n">>)

\* the mutation of submit_public
CreateDiscussion(rid, cid, t, escaped_body) ==
    Concat(<< <<"m", "u", "t", "a", "t", "i", "o", "n", " ", "{", "\n", " ",
                " ", "c", "r", "e", "a", "t", "e", "D", "i", "s", "c", "u",
                "s", "s", "i", "o", "n", "(", "i", "n", "p", "u", "t", ":",
                " ", "{", "\n", " ", " ", " ", " ", "r", "e", "p", "o", "s",
                "i", "t", "o", "r", "y", "I", "d", ":", " ", "\"">>, rid,
              <<"\"", "\n", " ", " ", " ", " ", "c", "a", "t", "e", "g", "o",
                "r", "y", "I", "d", ":", " ", "\"">>, cid,
              <<"\"", "\n", " ", " ", " ", " ", "t", "i", "t", "l", "e", ":",
                " ", "\"">>, t,
              <<"\"", "\n", " ", " ", " ", " ", "b", "o", "d", "y", ":", " ",
                "\"">>, escaped_body,
              <<"\"", "\n", " ", " ", "}", ")", " ", "{", "\n", " ", " ",
                " ", " ", "d", "i", "s", "c", "u", "s", "s", "i", "o", "n",
                " ", "{", "\n", " ", " ", " ", " ", " ", " ", "u", "r", "l",
                "\n", " ", " ", " ", " ", "}", "\n", " ", " ", "}", "\n",
                "}">> >>)

\* lines 324-374 of submit_public when gh answers the query by qr: the
\* query, the repository id and the category
submit_public_query(qr) ==
    LET query_call == TelCall("run_command_output", "gh",
                         << <<"a", "p", "i">>, <<"g", "r", "a", "p", "h", "q", "l">>, <<"-", "f">>, <<"q", "u", "e", "r", "y",
                                                      "=">> \o CategoriesQuery >>, qr)
        stop(e) == [ok |-> FALSE, err |-> e, repo_id |-> <<>>, category_id |-> <<>>,
                    calls |-> <<query_call>>]
    IN  IF ~qr.ok THEN stop("run_command_output")
        ELSE IF qr.out.kind = "not_json" THEN stop("graphql_parse")
        ELSE IF ~qr.out.id.present THEN stop("repo_id_not_found")
        ELSE IF ~qr.out.nodes.present THEN stop("categories_not_found")
        ELSE IF ~CategoryId(qr.out.nodes.v).present THEN stop("no_suitable_category")
        ELSE [ok |-> TRUE, err |-> "none", repo_id |-> qr.out.id.v,
              category_id |-> CategoryId(qr.out.nodes.v).v, calls |-> <<query_call>>]

\* lines 381-414 of submit_public: the argument of the second gh api graphql call
MutationArg(t, m, rid, cid) ==
    <<"q", "u", "e", "r", "y", "=">> \o CreateDiscussion(rid, cid, t, EscapedBody(PublicBody(m)))

\* lines 417-428 of submit_public when gh answers the mutation by mr
submit_public_mutation(arg, mr) ==
    [ok |-> mr.ok /\ mr.out.kind = "object" /\ mr.out.url.present,
     err |-> IF ~mr.ok THEN "run_command_output"
             ELSE IF mr.out.kind = "not_json" THEN "mutation_parse"
             ELSE IF ~mr.out.url.present THEN "failed_to_create"
             ELSE "none",
     calls |-> << TelCall("run_command_output", "gh", << <<"a", "p", "i">>, <<"g", "r", "a", "p", "h",
                                                                  "q", "l">>, <<"-", "f">>, arg >>, mr) >>]

----------------------------------------------------------------------------
(* State machine: telemetry::execute *)

\* return Err(..) by `?`
TelFail(e) ==
    /\ tel_ret' = [returned |-> TRUE, ok |-> FALSE, err |-> e]
    /\ tel_pc' = "done"

\* Ok(())
TelReturnOk ==
    /\ tel_ret' = [returned |-> TRUE, ok |-> TRUE, err |-> "none"]
    /\ tel_pc' = "done"

InitTelemetry ==
    /\ tel_pc = "start"
    /\ tel_args \in TelemetryArgs
    /\ tel_env \in TelEnvs
    /\ tel_run = 1
    /\ tel_prev = NoTelPrev
    /\ anonymous = FALSE
    /\ now = NoClock
    /\ tel_repo_name = <<>>
    /\ project_id = <<>>
    /\ metrics = NoMetrics
    /\ telemetry_json = <<>>
    /\ submission_title = <<>>
    /\ repo_id = <<>>
    /\ category_id = <<>>
    /\ mut_arg = <<>>
    /\ tel_calls = <<>>
    /\ tel_ret = [returned |-> FALSE, ok |-> FALSE, err |-> "none"]
    /\ CiNotStarted
    /\ ReportNotStarted
    /\ pc = "detect"
    /\ results = <<>>
    /\ probe_idx = 1
    /\ probes = <<>>
    /\ probe_out = "none"
    /\ provider = "undetected"
    /\ GEMINI_COMMAND = "unset"
    /\ relevant = <<>>
    /\ batches = <<>>
    /\ batch_idx = 0
    /\ batch_prompt = <<>>
    /\ proc_out = NoOutput
    /\ result = NoResult
    /\ insights = <<>>
    /\ log = <<>>
    /\ history = <<>>
    /\ notices = <<>>
    /\ ret = NotReturned
    /\ env = AnyEnv
    /\ run = 1
    /\ prev = NoPrev

\* lines 66-123: anonymous, the clock, the project id and the initial Metrics
TelStart ==
    /\ tel_pc = "start"
    /\ \E res \in RemoteUrlResults(tel_env.repository) :
          LET anon == DefaultAnonymous(tel_args)
              name == RepoName(IF res.ok THEN res.out ELSE <<>>)
              pid == ProjectId(anon, name)
          IN  /\ anonymous' = anon
              /\ now' = ClockOf(tel_run)
              /\ tel_repo_name' = name
              /\ project_id' = pid
              /\ metrics' = InitialMetrics(tel_args, anon, pid, ClockOf(tel_run))
              /\ tel_calls' = << TelCall("run_command_output", "git",
                                    << <<"c", "o", "n", "f", "i", "g">>, <<"-", "-", "g", "e", "t">>, <<"r", "e", "m", "o", "t",
                                                            "e", ".", "o", "r", "i",
                                                            "g", "i", "n", ".", "u",
                                                            "r", "l">> >>, res) >>
    /\ tel_pc' = "order1"
    /\ UNCHANGED <<tel_args, tel_env, tel_run, tel_prev, telemetry_json,
                   submission_title, tel_ret,
                   repo_id, category_id, mut_arg>>
    /\ UNCHANGED <<analysisVars, reportVars, ciVars>>

\* match collect_order1(system).await { Ok(m) => metrics.order1 = m, Err(e) => eprintln!(..) }
TelCollectOrder1 ==
    /\ tel_pc = "order1"
    /\ LET c == collect_order1([k \in 1..4 |-> GhListResult(tel_env.gh)])
       IN  /\ metrics' = [metrics EXCEPT !.order1 = IF c.ok THEN c.m ELSE @]
           /\ tel_calls' = tel_calls \o c.calls
    /\ tel_pc' = "order2"
    /\ UNCHANGED <<tel_args, tel_env, tel_run, tel_prev, anonymous, now,
                   tel_repo_name, project_id, telemetry_json,
                   submission_title, tel_ret,
                   repo_id, category_id, mut_arg>>
    /\ UNCHANGED <<analysisVars, reportVars, ciVars>>

\* match collect_order2(system).await { .. }
TelCollectOrder2 ==
    /\ tel_pc = "order2"
    /\ \E gr \in GitLogResults :
          \E vr \in [1..Len(SelectSeq(IssuesOf(IssueListResult(tel_env.gh)),
                                      LAMBDA i : i.some)) -> IssueViewResults] :
             LET c == collect_order2(IssueListResult(tel_env.gh), vr, gr)
             IN  /\ metrics' = [metrics EXCEPT !.order2 = IF c.ok THEN c.m ELSE @]
                 /\ tel_calls' = tel_calls \o c.calls
    /\ tel_pc' = "order3"
    /\ UNCHANGED <<tel_args, tel_env, tel_run, tel_prev, anonymous, now,
                   tel_repo_name, project_id, telemetry_json,
                   submission_title, tel_ret,
                   repo_id, category_id, mut_arg>>
    /\ UNCHANGED <<analysisVars, reportVars, ciVars>>

\* match collect_order3(system).await { .. }
TelCollectOrder3 ==
    /\ tel_pc = "order3"
    /\ LET c == collect_order3(GhListResult(tel_env.gh), GhListResult(tel_env.gh))
       IN  /\ metrics' = [metrics EXCEPT !.order3 = IF c.ok THEN c.m ELSE @]
           /\ tel_calls' = tel_calls \o c.calls
    /\ tel_pc' = "payload"
    /\ UNCHANGED <<tel_args, tel_env, tel_run, tel_prev, anonymous, now,
                   tel_repo_name, project_id, telemetry_json,
                   submission_title, tel_ret,
                   repo_id, category_id, mut_arg>>
    /\ UNCHANGED <<analysisVars, reportVars, ciVars>>

\* lines 149-172: the patterns, the payload and the title
TelGeneratePayload ==
    /\ tel_pc = "payload"
    /\ LET m == IF tel_args.include_patterns
                THEN [metrics EXCEPT !.patterns = SomePatterns(PatternsOf(metrics))]
                ELSE metrics
       IN  /\ metrics' = m
           /\ telemetry_json' = to_string_pretty(m)
    /\ submission_title' = SubmissionTitle(tel_args, project_id, now.week, now.year)
    /\ tel_pc' = "submit"
    /\ UNCHANGED <<tel_args, tel_env, tel_run, tel_prev, anonymous, now,
                   tel_repo_name, project_id, tel_calls, tel_ret,
                   repo_id, category_id, mut_arg>>
    /\ UNCHANGED <<analysisVars, reportVars, ciVars>>

TelDryRunSubmits ==
    /\ tel_pc = "submit"
    /\ tel_args.dry_run
    /\ tel_calls' = tel_calls \o submit_internal(submission_title, metrics, PortOk(<<>>)).calls
    /\ TelReturnOk
    /\ UNCHANGED <<tel_args, tel_env, tel_run, tel_prev, anonymous, now,
                   tel_repo_name, project_id, metrics, telemetry_json,
                   submission_title, repo_id, category_id, mut_arg>>
    /\ UNCHANGED <<analysisVars, reportVars, ciVars>>

\* if args.dry_run { .. return Ok(()); }
TelDryRun ==
    /\ tel_pc = "submit"
    /\ tel_args.dry_run
    /\ TelReturnOk
    /\ UNCHANGED <<tel_args, tel_env, tel_run, tel_prev, anonymous, now,
                   tel_repo_name, project_id, metrics, telemetry_json,
                   submission_title, tel_calls,
                   repo_id, category_id, mut_arg>>
    /\ UNCHANGED <<analysisVars, reportVars, ciVars>>

\* if args.internal { submit_internal(..).await?; } .. Ok(())
TelSubmitInternal ==
    /\ tel_pc = "submit"
    /\ ~tel_args.dry_run
    /\ tel_args.internal
    /\ \E res \in RunCommandResults :
          LET s == submit_internal(submission_title, metrics, res)
          IN  /\ tel_calls' = tel_calls \o s.calls
              /\ IF s.ok THEN TelReturnOk ELSE TelFail(s.err)
    /\ UNCHANGED <<tel_args, tel_env, tel_run, tel_prev, anonymous, now,
                   tel_repo_name, project_id, metrics, telemetry_json,
                   submission_title,
                   repo_id, category_id, mut_arg>>
    /\ UNCHANGED <<analysisVars, reportVars, ciVars>>

\* else { submit_public(..).await?; }, up to the second call of gh
TelPublicQuery ==
    /\ tel_pc = "submit"
    /\ ~tel_args.dry_run
    /\ ~tel_args.internal
    /\ \E qr \in QueryResults :
          LET q == submit_public_query(qr)
          IN  /\ tel_calls' = tel_calls \o q.calls
              /\ repo_id' = q.repo_id
              /\ category_id' = q.category_id
              /\ IF q.ok
                 THEN /\ mut_arg' = MutationArg(submission_title, metrics,
                                                q.repo_id, q.category_id)
                      /\ tel_pc' = "mutation"
                      /\ UNCHANGED tel_ret
                 ELSE /\ TelFail(q.err)
                      /\ UNCHANGED mut_arg
    /\ UNCHANGED <<tel_args, tel_env, tel_run, tel_prev, anonymous, now,
                   tel_repo_name, project_id, metrics, telemetry_json,
                   submission_title>>
    /\ UNCHANGED <<analysisVars, reportVars, ciVars>>

\* the rest of submit_public, and Ok(())
TelPublicMutation ==
    /\ tel_pc = "mutation"
    /\ \E mr \in MutationResults :
          LET s == submit_public_mutation(mut_arg, mr)
          IN  /\ tel_calls' = tel_calls \o s.calls
              /\ IF s.ok THEN TelReturnOk ELSE TelFail(s.err)
    /\ UNCHANGED <<tel_args, tel_env, tel_run, tel_prev, anonymous, now,
                   tel_repo_name, project_id, metrics, telemetry_json,
                   submission_title, repo_id, category_id, mut_arg>>
    /\ UNCHANGED <<analysisVars, reportVars, ciVars>>

\* the command is run again in the same repository, with arguments of its own
TelNewRun ==
    /\ tel_pc = "done"
    /\ tel_run < MaxRuns
    /\ tel_run' = tel_run + 1
    /\ tel_prev' = [some |-> TRUE, anonymous |-> anonymous, project_id |-> project_id]
    /\ tel_args' \in TelemetryArgs
    /\ tel_pc' = "start"
    /\ anonymous' = FALSE
    /\ now' = NoClock
    /\ tel_repo_name' = <<>>
    /\ project_id' = <<>>
    /\ metrics' = NoMetrics
    /\ telemetry_json' = <<>>
    /\ submission_title' = <<>>
    /\ repo_id' = <<>>
    /\ category_id' = <<>>
    /\ mut_arg' = <<>>
    /\ tel_calls' = <<>>
    /\ tel_ret' = [returned |-> FALSE, ok |-> FALSE, err |-> "none"]
    /\ UNCHANGED tel_env
    /\ UNCHANGED <<analysisVars, reportVars, ciVars>>

NextTelemetry ==
    \/ TelStart
    \/ TelCollectOrder1
    \/ TelCollectOrder2
    \/ TelCollectOrder3
    \/ TelGeneratePayload
    \/ TelDryRun
    \/ TelSubmitInternal
    \/ TelPublicQuery
    \/ TelPublicMutation
    \/ TelNewRun

SpecTelemetry == InitTelemetry /\ [][NextTelemetry]_vars

----------------------------------------------------------------------------
(* telemetry::execute: vocabulary of the properties *)

TelDone == tel_pc = "done" /\ tel_ret.returned

\* a call that creates something on GitHub: gh issue create, or a graphql
\* call whose text has the createDiscussion mutation
IsSubmission(call) ==
    /\ call.name = "gh"
    /\ \/ call.method = "run_command"
       \/ Len(call.args) >= 2 /\ call.args[1] = <<"i", "s", "s", "u", "e">> /\ call.args[2] = <<"c", "r", "e", "a", "t",
                                                                            "e">>
       \/ /\ Len(call.args) = 4
          /\ call.args[1] = <<"a", "p", "i">> /\ call.args[2] = <<"g", "r", "a", "p", "h",
                                                      "q", "l">>
          /\ Contains(call.args[4], <<"c", "r", "e", "a", "t", "e", "D", "i",
                                      "s", "c", "u", "s", "s", "i", "o", "n">>)

\* a call of the metric collection, which only reads: git config --get,
\* git log, gh issue list, gh pr list, gh issue view
IsCollection(call) ==
    /\ call.method = "run_command_output"
    /\ \/ call.name = "git" /\ call.args[1] = <<"c", "o", "n", "f", "i", "g">> /\ call.args[2] = <<"-", "-", "g", "e", "t">>
       \/ call.name = "git" /\ call.args[1] = <<"l", "o", "g">>
       \/ call.name = "gh" /\ call.args[1] \in { <<"i", "s", "s", "u", "e">>, <<"p", "r">> } /\ call.args[2] = <<"l", "i", "s", "t">>
       \/ call.name = "gh" /\ call.args[1] = <<"i", "s", "s", "u", "e">> /\ call.args[2] = <<"v", "i", "e", "w">>

\* the payload and the title have been generated
PayloadGenerated == tel_pc \in {"submit", "mutation", "done"}

\* the project id has been computed
ProjectIdComputed == tel_pc \notin {"not_started", "start"}

\* "anon-" followed by eight hexadecimal digits
IsAnonId(p) ==
    /\ Len(p) = 13
    /\ SubSeq(p, 1, 5) = <<"a", "n", "o", "n", "-">>
    /\ \A i \in 6..13 : p[i] \in HexDigits

----------------------------------------------------------------------------
(* C32 *)

\* C32: with dry_run set, in internal as in public mode, telemetry::execute
\* runs no submission command (neither gh issue create nor the
\* createDiscussion mutation, nor the query that precedes it), every command
\* it runs is one of the read-only collection commands, and it returns Ok.
C32_DryRunSubmitsNothing ==
    tel_args.dry_run =>
        /\ \A k \in 1..Len(tel_calls) :
              IsCollection(tel_calls[k]) /\ ~IsSubmission(tel_calls[k])
        /\ tel_pc # "mutation"
        /\ mut_arg = <<>>
        /\ TelDone => tel_ret.ok

\* a dry run in internal mode has collected every metric and returned
C32_Witness ==
    /\ TelDone /\ tel_ret.ok
    /\ tel_args.dry_run /\ tel_args.internal
    /\ tel_env.gh = "ok"
    /\ Len(tel_calls) = 10
    /\ submission_title # <<>>

----------------------------------------------------------------------------
(* C39 *)

\* C39: anonymous is args.anonymous when it is given and the negation of
\* internal otherwise; whenever anonymous is true the project id is "anon-"
\* followed by the first eight hexadecimal digits of the digest of the
\* repository name, that id is the project_id of the payload and the one in
\* the title, and the repository name occurs neither in the payload nor in
\* the title; and a run in the same repository with the same anonymity gives
\* the project id the previous run gave.
C39_Anonymity ==
    /\ ProjectIdComputed =>
          /\ anonymous = (IF tel_args.anonymous.some THEN tel_args.anonymous.b
                          ELSE ~tel_args.internal)
          /\ metrics.project_id = project_id /\ metrics.anonymous = anonymous
          /\ anonymous =>
                /\ IsAnonId(project_id)
                /\ project_id = <<"a", "n", "o", "n", "-">> \o SubSeq(Sha256Hex(tel_repo_name), 1, 8)
    /\ (PayloadGenerated /\ anonymous) =>
          /\ Contains(telemetry_json, <<"\"", "p", "r", "o", "j", "e", "c",
                                        "t", "_", "i", "d", "\"", ":", " ",
                                        "\"">> \o project_id \o <<"\"", ",">>)
          /\ Contains(submission_title, <<" ">> \o project_id \o <<" ", "-", " ", "W", "e",
                                                               "e", "k", " ">>)
          /\ ~Contains(telemetry_json, tel_repo_name)
          /\ ~Contains(submission_title, tel_repo_name)
    /\ (ProjectIdComputed /\ tel_prev.some /\ tel_prev.anonymous = anonymous) =>
          project_id = tel_prev.project_id

\* a second anonymous run in the clone of acme/app has submitted a discussion
C39_Witness ==
    /\ TelDone /\ tel_ret.ok
    /\ tel_run = 2 /\ tel_prev.some /\ tel_prev.anonymous
    /\ anonymous /\ ~tel_args.anonymous.some
    /\ ~tel_args.dry_run /\ ~tel_args.internal
    /\ tel_env.repository = "acme/app"
    /\ tel_repo_name = <<"a", "c", "m", "e", "/", "a", "p", "p">>

====
